---------------------------- MODULE Spec2Model ----------------------------
(***************************************************************************)
(* Model of the GitHub Mode automation scripts.                            *)
(*                                                                         *)
(* JavaScript strings are modelled as sequences of one-character strings,  *)
(* so that split, trim, startsWith, endsWith and the default sort order    *)
(* are computed character by character, as the runtime computes them.      *)
(***************************************************************************)
EXTENDS Integers, Sequences, FiniteSets, TLC

VARIABLES
    pc,           \* position of the caller: which function is applied next
    diffOutput,   \* the text handed to parseDiffEntries
    entries,      \* DiffEntry[]: the parser's result, or entries built by the caller
    parseState,   \* "none", or how parseDiffEntries ended: "returned" or "threw"
    addedSpecs,   \* result of getAddedSpecArtifacts(entries)
    updated,      \* result of hasScoreboardUpdate(entries)
    outcome,      \* result of enforceSpecToImplementationTracking(entries)
    scoreboard,   \* the Scoreboard handed to validateScoreboard
    validation,   \* result of validateScoreboard(scoreboard)
    originRefs,   \* the refs for which `git rev-parse --verify` succeeds
    gitDiff,      \* how `git diff --name-status` ends: ok and its stdout
    scoreboardFile, \* the scoreboard file: missing, not JSON, or a JSON object
    summaryFlag,  \* process.argv.includes("--summary")
    probed,       \* the refs determineBaseRef has probed, in order
    baseRef,      \* the result of determineBaseRef, "" before it returns
    calls,        \* the functions main has called, in order
    printed,      \* printed lines (console.log, console.error), in order
    exitCode,     \* the exit code of the process once pc = "exited"
    env,          \* process.env of signal-reaction.ts: the GITHUB_* variables
    stateFileArg, \* whether --state-file <path> is on the command line
    eventFile,    \* the file at GITHUB_EVENT_PATH: missing, not JSON, or a payload
    writable,     \* whether the state file can be written
    context,      \* the EventContext add mode parsed, NoContext before
    authorization, \* "undecided", or what isAuthorizedAssociation returned
    disk,         \* the state file on disk: absent, not JSON, or a ReactionState
    log,          \* the lines signal-reaction.ts printed, in order
    exitCodes,    \* exit codes of the add and remove runs, in order
    promptEvent,  \* the event name handed to extractPrompt
    promptPayload, \* the payload handed to extractPrompt
    prompt,       \* None, or Some(the string extractPrompt returned)
    argv,         \* process.argv handed to parseArgs
    parsedArgs,   \* None, or Some(what parseArgs returned)
    repoFiles,    \* the files under the repository root, as paths of segments
    bundleOutputDir, \* options.outputDir of buildBundle
    dryResult,    \* None, or Some(how buildBundle ended with dryRun true)
    wetResult     \* None, or Some(how buildBundle ended with dryRun false)

guardVars == <<pc, diffOutput, entries, parseState, addedSpecs, updated, outcome>>
scoreboardVars == <<scoreboard, validation>>

cliVars ==
    <<originRefs, gitDiff, scoreboardFile, summaryFlag, probed, baseRef, calls, printed,
      exitCode>>

reactionVars ==
    <<env, stateFileArg, eventFile, writable, context, authorization, disk, log, exitCodes>>

promptVars == <<promptEvent, promptPayload, prompt>>
bundleVars == <<argv, parsedArgs, repoFiles, bundleOutputDir, dryResult, wetResult>>

vars == <<guardVars, scoreboardVars, cliVars, reactionVars, promptVars, bundleVars>>

---------------------------------------------------------------------------
(* Characters and strings *)

TAB == "\t"
LF == "\n"
CR == "\r"
SPACE == " "

\* UTF-16 code units of the characters of the model (all ASCII).
CharCode ==
    "\t" :> 9 @@ "\n" :> 10 @@ "\r" :> 13 @@ " " :> 32 @@ "-" :> 45 @@ "." :> 46 @@
    "/" :> 47 @@ "0" :> 48 @@ "1" :> 49 @@ "2" :> 50 @@ "3" :> 51 @@ "4" :> 52 @@ "5" :> 53 @@
    "6" :> 54 @@ "7" :> 55 @@ "8" :> 56 @@ "9" :> 57 @@ ":" :> 58 @@ "A" :> 65 @@ "B" :> 66 @@
    "C" :> 67 @@ "D" :> 68 @@ "E" :> 69 @@ "F" :> 70 @@ "G" :> 71 @@ "H" :> 72 @@ "I" :> 73 @@
    "J" :> 74 @@ "K" :> 75 @@ "L" :> 76 @@ "M" :> 77 @@ "N" :> 78 @@ "O" :> 79 @@ "P" :> 80 @@
    "Q" :> 81 @@ "R" :> 82 @@ "S" :> 83 @@ "T" :> 84 @@ "U" :> 85 @@ "V" :> 86 @@ "W" :> 87 @@
    "X" :> 88 @@ "Y" :> 89 @@ "Z" :> 90 @@ "_" :> 95 @@ "a" :> 97 @@ "b" :> 98 @@ "c" :> 99 @@
    "d" :> 100 @@ "e" :> 101 @@ "f" :> 102 @@ "g" :> 103 @@ "h" :> 104 @@ "i" :> 105 @@
    "j" :> 106 @@ "k" :> 107 @@ "l" :> 108 @@ "m" :> 109 @@ "n" :> 110 @@ "o" :> 111 @@
    "p" :> 112 @@ "q" :> 113 @@ "r" :> 114 @@ "s" :> 115 @@ "t" :> 116 @@ "u" :> 117 @@
    "v" :> 118 @@ "w" :> 119 @@ "x" :> 120 @@ "y" :> 121 @@ "z" :> 122

\* The characters String.prototype.trim removes (those of the model's alphabet).
WhiteSpace == {SPACE, TAB, LF, CR}

\* const SCOREBOARD_PATH = ".GITHUB-MODE/runtime/implementation-scoreboard.json"
SCOREBOARD_PATH ==
    <<".","G","I","T","H","U","B","-","M","O","D","E","/","r","u","n","t","i","m","e","/","i",
      "m","p","l","e","m","e","n","t","a","t","i","o","n","-","s","c","o","r","e","b","o","a",
      "r","d",".","j","s","o","n">>

\* const SPEC_ARTIFACT_PREFIX = ".GITHUB-MODE/docs/planning/"
SPEC_ARTIFACT_PREFIX ==
    <<".","G","I","T","H","U","B","-","M","O","D","E","/","d","o","c","s","/","p","l","a","n",
      "n","i","n","g","/">>

\* ".md"
MD_EXT == <<".","m","d">>

\* "/README.md"
README_SUFFIX == <<"/","R","E","A","D","M","E",".","m","d">>

Min(S) == CHOOSE x \in S : \A y \in S : x <= y
Max(S) == CHOOSE x \in S : \A y \in S : y <= x

\* s.startsWith(p)
startsWith(s, p) == Len(s) >= Len(p) /\ SubSeq(s, 1, Len(p)) = p

\* s.endsWith(p)
endsWith(s, p) == Len(s) >= Len(p) /\ SubSeq(s, Len(s) - Len(p) + 1, Len(s)) = p

\* s.trim()
trim(s) ==
    LET keep == {i \in 1..Len(s) : s[i] \notin WhiteSpace}
    IN  IF keep = {} THEN << >> ELSE SubSeq(s, Min(keep), Max(keep))

\* s.split(sep) for a one-character separator: always at least one piece.
RECURSIVE split(_, _)
split(s, sep) ==
    LET at == {i \in 1..Len(s) : s[i] = sep}
    IN  IF at = {} THEN <<s>>
        ELSE <<SubSeq(s, 1, Min(at) - 1)>> \o split(SubSeq(s, Min(at) + 1, Len(s)), sep)

\* lines.join(sep)
RECURSIVE join(_, _)
join(ss, sep) ==
    IF ss = << >> THEN << >>
    ELSE IF Len(ss) = 1 THEN ss[1]
    ELSE ss[1] \o sep \o join(Tail(ss), sep)

\* a < b in the order Array.prototype.toSorted uses by default: by UTF-16 code
\* units, a proper prefix before its extensions.
lexLess(a, b) ==
    LET n == IF Len(a) < Len(b) THEN Len(a) ELSE Len(b)
        diff == {i \in 1..n : a[i] # b[i]}
    IN  IF diff = {} THEN Len(a) < Len(b)
        ELSE CharCode[a[Min(diff)]] < CharCode[b[Min(diff)]]

\* Insert x into the ascending sequence s, after the elements not greater than it.
RECURSIVE insertSorted(_, _)
insertSorted(s, x) ==
    IF s = << >> THEN <<x>>
    ELSE IF lexLess(x, s[1]) THEN <<x>> \o s
    ELSE <<s[1]>> \o insertSorted(Tail(s), x)

\* [...xs].toSorted()
RECURSIVE toSorted(_)
toSorted(xs) ==
    IF xs = << >> THEN << >>
    ELSE insertSorted(toSorted(SubSeq(xs, 1, Len(xs) - 1)), xs[Len(xs)])

---------------------------------------------------------------------------
(* check-implementation-scoreboard.ts: the diff parser and the guard *)

\* type DiffEntry = { status: string; path: string }
DiffEntry(status, path) == [status |-> status, path |-> path]

\* arr[i] with JavaScript's 0-based index: undefined when out of range.
at(arr, i) ==
    IF i + 1 \in DOMAIN arr THEN [defined |-> TRUE, value |-> arr[i + 1]]
    ELSE [defined |-> FALSE, value |-> << >>]

\* if (x): a string is truthy when it is defined and not empty.
truthy(x) == x.defined /\ x.value # << >>

\* As it must not be: only lines with no field at all skipped.
tooFewFieldsOffByOne(parts) == Len(parts) < 1

\* if (parts.length < 2) continue: the lines that yield no entry.
tooFewFields(parts) == Len(parts) < 2

\* As it must not be: a rename or copy line yielding its new path alone.
renameOrCopyNewPathOnly(status, oldPath, newPath) ==
    IF truthy(newPath) THEN <<DiffEntry(status, trim(newPath.value))>>
    ELSE <<DiffEntry(status, trim(oldPath.value))>>

\* As it must not be: a rename or copy line taken for a line with one path.
renameOrCopyOldPathOnly(status, oldPath, newPath) ==
    <<DiffEntry(status, trim(oldPath.value))>>

\* The entries a rename or copy line pushes: the old path, then the new path
\* when the field is there and not empty, both under the line's status.
renameOrCopyEntries(status, oldPath, newPath) ==
    <<DiffEntry(status, trim(oldPath.value))>>
    \o (IF truthy(newPath) THEN <<DiffEntry(status, trim(newPath.value))>> ELSE << >>)

\* The entry every other line pushes.
plainEntries(status, path) == <<DiffEntry(status, trim(path.value))>>

\* One pass of the loop body of parseDiffEntries over a line.  Calling trim on
\* undefined raises a TypeError: threw is TRUE and nothing is pushed.
parseLine(line) ==
    LET parts == split(line, TAB)
        p0 == at(parts, 0)
        p1 == at(parts, 1)
        p2 == at(parts, 2)
        status == trim(p0.value)
    IN  IF tooFewFields(parts)
          THEN [threw |-> FALSE, pushed |-> << >>]
        ELSE IF ~p0.defined \/ ~p1.defined
          THEN [threw |-> TRUE, pushed |-> << >>]
        ELSE IF startsWith(status, <<"R">>) \/ startsWith(status, <<"C">>)
          THEN [threw |-> FALSE, pushed |-> renameOrCopyEntries(status, p1, p2)]
        ELSE [threw |-> FALSE, pushed |-> plainEntries(status, p1)]

\* As it must not be: an entry already in the result not pushed again.
RECURSIVE parseLinesDeduplicated(_, _)
parseLinesDeduplicated(lines, acc) ==
    IF lines = << >> THEN [threw |-> FALSE, entries |-> acc]
    ELSE LET r == parseLine(lines[1])
             new == SelectSeq(r.pushed, LAMBDA e : \A i \in DOMAIN acc : acc[i] # e)
         IN  IF r.threw THEN [threw |-> TRUE, entries |-> << >>]
             ELSE parseLinesDeduplicated(Tail(lines), acc \o new)

\* The loop of parseDiffEntries over the lines, pushing onto acc.
RECURSIVE parseLines(_, _)
parseLines(lines, acc) ==
    IF lines = << >> THEN [threw |-> FALSE, entries |-> acc]
    ELSE LET r == parseLine(lines[1])
         IN  IF r.threw THEN [threw |-> TRUE, entries |-> << >>]
             ELSE parseLines(Tail(lines), acc \o r.pushed)

\* export function parseDiffEntries(diffOutput: string): DiffEntry[]
parseDiffEntries(text) == parseLines(split(text, LF), << >>)

\* As it must not be: the extension not looked at.
isSpecArtifactAnyExtension(path) ==
    /\ startsWith(path, SPEC_ARTIFACT_PREFIX)
    /\ ~endsWith(path, README_SUFFIX)

\* As it must not be: the index file taken for a spec artifact.
isSpecArtifactWithReadme(path) ==
    /\ startsWith(path, SPEC_ARTIFACT_PREFIX)
    /\ endsWith(path, MD_EXT)

\* export function isSpecArtifact(path: string): boolean
isSpecArtifact(path) ==
    /\ startsWith(path, SPEC_ARTIFACT_PREFIX)
    /\ endsWith(path, MD_EXT)
    /\ ~endsWith(path, README_SUFFIX)

\* The condition under which entry's path is an added spec artifact.  As it must
\* not be: every status but "D" taken for an addition.
isAdditionUnlessDeleted(entry) == entry.status # <<"D">> /\ isSpecArtifact(entry.path)

\* entry.status === "A" && isSpecArtifact(entry.path)
isAddition(entry) == entry.status = <<"A">> /\ isSpecArtifact(entry.path)

\* Set.prototype.add on a Set kept in insertion order.
setAdd(set, x) == IF \E i \in DOMAIN set : set[i] = x THEN set ELSE Append(set, x)

\* The loop of getAddedSpecArtifacts: the Set of additions, in insertion order.
RECURSIVE collectAdditions(_, _)
collectAdditions(es, additions) ==
    IF es = << >> THEN additions
    ELSE collectAdditions(Tail(es),
            IF isAddition(es[1])
            THEN setAdd(additions, es[1].path) ELSE additions)

\* As it must not be: the additions returned in insertion order, unsorted.
getAddedSpecArtifactsUnsorted(es) == collectAdditions(es, << >>)

\* export function getAddedSpecArtifacts(entries: DiffEntry[]): string[]
getAddedSpecArtifacts(es) == toSorted(collectAdditions(es, << >>))

\* As it must not be: only additions and modifications counted as updates.
hasScoreboardUpdateAddedOrModified(es) ==
    \E i \in DOMAIN es : es[i].path = SCOREBOARD_PATH /\ es[i].status \in {<<"A">>, <<"M">>}

\* As it must not be: any entry for the scoreboard path counted, deletions too.
hasScoreboardEntry(es) == \E i \in DOMAIN es : es[i].path = SCOREBOARD_PATH

\* export function hasScoreboardUpdate(entries: DiffEntry[]): boolean
hasScoreboardUpdate(es) ==
    \E i \in DOMAIN es : es[i].path = SCOREBOARD_PATH /\ es[i].status # <<"D">>

\* "New planning/spec artifacts were added without updating implementation scoreboard."
MSG_HEADER ==
    <<"N","e","w"," ","p","l","a","n","n","i","n","g","/","s","p","e","c"," ","a","r","t","i",
      "f","a","c","t","s"," ","w","e","r","e"," ","a","d","d","e","d"," ","w","i","t","h","o",
      "u","t"," ","u","p","d","a","t","i","n","g"," ","i","m","p","l","e","m","e","n","t","a",
      "t","i","o","n"," ","s","c","o","r","e","b","o","a","r","d",".">>

\* "Added artifacts:"
MSG_ADDED ==
    <<"A","d","d","e","d"," ","a","r","t","i","f","a","c","t","s",":">>

\* "  - "
MSG_BULLET == <<" "," ","-"," ">>

\* "Update "
MSG_UPDATE ==
    <<"U","p","d","a","t","e"," ">>

\* " in the same change to keep spec-vs-implementation tracking current."
MSG_UPDATE_TAIL ==
    <<" ","i","n"," ","t","h","e"," ","s","a","m","e"," ","c","h","a","n","g","e"," ","t","o",
      " ","k","e","e","p"," ","s","p","e","c","-","v","s","-","i","m","p","l","e","m","e","n",
      "t","a","t","i","o","n"," ","t","r","a","c","k","i","n","g"," ","c","u","r","r","e","n",
      "t",".">>

\* As it must not be: the message without the line naming the scoreboard path.
trackingMessageWithoutUpdateLine(added) ==
    join(<<MSG_HEADER, MSG_ADDED>> \o [i \in DOMAIN added |-> MSG_BULLET \o added[i]], <<LF>>)

\* The message of the Error thrown by enforceSpecToImplementationTracking.
trackingMessage(added) ==
    join(<<MSG_HEADER, MSG_ADDED>>
         \o [i \in DOMAIN added |-> MSG_BULLET \o added[i]]
         \o <<MSG_UPDATE \o SCOREBOARD_PATH \o MSG_UPDATE_TAIL>>,
         <<LF>>)

\* As it must not be: the scoreboard update not looked at.
enforceWithoutScoreboardCheck(es) ==
    LET added == getAddedSpecArtifacts(es)
    IN  IF Len(added) = 0 THEN [threw |-> FALSE, message |-> << >>]
        ELSE [threw |-> TRUE, message |-> trackingMessage(added)]

\* export function enforceSpecToImplementationTracking(entries: DiffEntry[]): void
\* threw says whether it threw, message is the Error's message.
enforceSpecToImplementationTracking(es) ==
    LET added == getAddedSpecArtifacts(es)
    IN  IF Len(added) = 0 THEN [threw |-> FALSE, message |-> << >>]
        ELSE IF ~hasScoreboardUpdate(es)
          THEN [threw |-> TRUE, message |-> trackingMessage(added)]
        ELSE [threw |-> FALSE, message |-> << >>]

---------------------------------------------------------------------------
(* Inputs: paths, status fields, diff lines and entries *)

\* "foo.md"
FOO_MD_NAME ==
    <<"f","o","o",".","m","d">>

\* "bar.md"
BAR_MD_NAME ==
    <<"b","a","r",".","m","d">>

\* "foo.txt"
FOO_TXT_NAME ==
    <<"f","o","o",".","t","x","t">>

\* "README.md"
README_NAME ==
    <<"R","E","A","D","M","E",".","m","d">>

\* "sub/README.md"
SUB_README_NAME ==
    <<"s","u","b","/","R","E","A","D","M","E",".","m","d">>

\* "docs/planning/foo.md"
DOCS_PLANNING_FOO_MD ==
    <<"d","o","c","s","/","p","l","a","n","n","i","n","g","/","f","o","o",".","m","d">>

\* "docs/planning/README.md"
DOCS_PLANNING_README_MD ==
    <<"d","o","c","s","/","p","l","a","n","n","i","n","g","/","R","E","A","D","M","E",".","m",
      "d">>

\* "docs/planning/foo.txt"
DOCS_PLANNING_FOO_TXT ==
    <<"d","o","c","s","/","p","l","a","n","n","i","n","g","/","f","o","o",".","t","x","t">>

\* "other/foo.md"
OTHER_FOO_MD ==
    <<"o","t","h","e","r","/","f","o","o",".","m","d">>

\* "old/a.md"
OLD_A_MD ==
    <<"o","l","d","/","a",".","m","d">>

\* "new/a.md"
NEW_A_MD ==
    <<"n","e","w","/","a",".","m","d">>

\* "extra"
EXTRA_FIELD ==
    <<"e","x","t","r","a">>

\* "R100"
R100 ==
    <<"R","1","0","0">>

\* "C75"
C75 ==
    <<"C","7","5">>

A == <<"A">>
M == <<"M">>
D == <<"D">>
EMPTY == << >>

FOO_MD == SPEC_ARTIFACT_PREFIX \o FOO_MD_NAME
BAR_MD == SPEC_ARTIFACT_PREFIX \o BAR_MD_NAME
FOO_TXT == SPEC_ARTIFACT_PREFIX \o FOO_TXT_NAME
PLANNING_README == SPEC_ARTIFACT_PREFIX \o README_NAME
PLANNING_SUB_README == SPEC_ARTIFACT_PREFIX \o SUB_README_NAME
X_README_MD == SPEC_ARTIFACT_PREFIX \o <<"x">> \o README_NAME

\* The lines of `git diff --name-status` output the model draws from, each given
\* by its tab-separated fields.
LineFields ==
    { <<EMPTY>>,                                \* a blank line
      <<<<SPACE, SPACE>>>>,                     \* a line of spaces
      <<A>>,                                    \* a status and no path
      <<EMPTY, EMPTY>>,                         \* a lone tab
      <<A, FOO_MD>>,
      <<A, BAR_MD>>,
      <<A, PLANNING_README>>,
      <<A, FOO_TXT>>,
      <<A, DOCS_PLANNING_FOO_MD>>,
      <<A, FOO_MD, EXTRA_FIELD>>,               \* a third field on an ordinary line
      <<<<SPACE>> \o A, BAR_MD \o <<CR>>>>,     \* padded status, CRLF line end
      <<M, FOO_MD>>,
      <<M, SCOREBOARD_PATH>>,
      <<A, SCOREBOARD_PATH>>,
      <<D, SCOREBOARD_PATH>>,
      <<R100, OLD_A_MD, NEW_A_MD>>,
      <<R100, SCOREBOARD_PATH, OTHER_FOO_MD>>,  \* the scoreboard renamed away
      <<R100, OTHER_FOO_MD, SCOREBOARD_PATH>>,  \* a file renamed onto the scoreboard
      <<C75, OTHER_FOO_MD, FOO_MD>>,            \* a copy onto a spec artifact path
      <<R100, OLD_A_MD>>,                       \* a rename line with one path
      <<R100, OLD_A_MD, EMPTY>>,                \* ... with an empty new path
      <<<<"C">>, OLD_A_MD, <<SPACE>>>> }        \* ... with a blank new path

Lines == {join(fs, <<TAB>>) : fs \in LineFields}

\* Most lines of a diff text.
MaxLines == 2

\* Sequences of at most n elements of S.
SeqsUpTo(S, n) == UNION {[1..k -> S] : k \in 0..n}

\* The diff texts: at most MaxLines lines joined by newlines (no line at all
\* is the empty text).
DiffTexts == {join(ls, <<LF>>) : ls \in SeqsUpTo(Lines, MaxLines)}

\* The entries a caller of the exported functions builds directly.
EntryPool ==
    { DiffEntry(A, FOO_MD),
      DiffEntry(A, BAR_MD),
      DiffEntry(A, PLANNING_SUB_README),
      DiffEntry(A, X_README_MD),
      DiffEntry(A, DOCS_PLANNING_README_MD),
      DiffEntry(A, DOCS_PLANNING_FOO_TXT),
      DiffEntry(M, FOO_MD),
      DiffEntry(R100, BAR_MD),
      DiffEntry(A \o <<SPACE>>, FOO_MD),            \* status not exactly "A"
      DiffEntry(M, SCOREBOARD_PATH),
      DiffEntry(D, SCOREBOARD_PATH),
      DiffEntry(M, SCOREBOARD_PATH \o <<SPACE>>) }  \* path not exactly the scoreboard's

\* Most entries of a sequence built directly.
MaxEntries == 3

EntrySeqs == SeqsUpTo(EntryPool, MaxEntries)

---------------------------------------------------------------------------
(* The functions applied in turn to an input *)

NoOutcome == [threw |-> FALSE, message |-> << >>]

\* No scoreboard: the value of scoreboard where none has been loaded or given.
NoScoreboard == [isArray |-> FALSE, capabilities |-> << >>]

\* validateScoreboard has not been called.
NotValidated == [called |-> FALSE, threw |-> FALSE, error |-> "", id |-> "", state |-> ""]

\* The variables of the diff guard where another script runs.
GuardAtRest ==
    /\ pc = "rest"
    /\ diffOutput = << >>
    /\ entries = << >>
    /\ parseState = "none"
    /\ addedSpecs = << >>
    /\ updated = FALSE
    /\ outcome = NoOutcome

\* The scoreboard variables where no scoreboard is looked at.
ScoreboardAtRest == scoreboard = NoScoreboard /\ validation = NotValidated

\* The scoreboard file is not there.
NoFile == [kind |-> "missing", value |-> NoScoreboard]

\* The variables of the command line check where it does not run.
CliAtRest ==
    /\ originRefs = {}
    /\ gitDiff = [ok |-> FALSE, stdout |-> << >>]
    /\ scoreboardFile = NoFile
    /\ summaryFlag = FALSE
    /\ probed = << >>
    /\ baseRef = ""
    /\ calls = << >>
    /\ printed = << >>
    /\ exitCode = 0

\* Optional values: null and undefined are None, the value v is Some(v).
None == << >>
Some(v) == <<v>>

\* No EventContext yet.
NoContext ==
    [eventName |-> "", issueNumber |-> 0, commentId |-> None, repo |-> << >>,
     authorAssociation |-> << >>]

\* No state file at the path.
AbsentFile == [kind |-> "absent", value |-> None]

\* The variables of signal-reaction.ts where it does not run.
ReactionAtRest ==
    /\ env = [GITHUB_EVENT_PATH |-> FALSE, GITHUB_EVENT_NAME |-> "", GITHUB_REPOSITORY |-> << >>]
    /\ stateFileArg = FALSE
    /\ eventFile = [kind |-> "missing", payload |-> None]
    /\ writable = FALSE
    /\ context = NoContext
    /\ authorization = "undecided"
    /\ disk = AbsentFile
    /\ log = << >>
    /\ exitCodes = << >>

\* The variables of extractPrompt where it is not applied.
PromptAtRest ==
    /\ promptEvent = ""
    /\ promptPayload = [comment |-> None, issue |-> None]
    /\ prompt = None

\* The variables of the bundle builder where it does not run.
BundleAtRest ==
    /\ argv = << >>
    /\ parsedArgs = None
    /\ repoFiles = {}
    /\ bundleOutputDir = << >>
    /\ dryResult = None
    /\ wetResult = None

Init ==
    /\ ScoreboardAtRest
    /\ CliAtRest
    /\ ReactionAtRest
    /\ PromptAtRest
    /\ BundleAtRest
    /\ \/ /\ pc = "text"
          /\ diffOutput \in DiffTexts
          /\ entries = << >>
       \/ /\ pc = "entries"
          /\ diffOutput = << >>
          /\ entries \in EntrySeqs
    /\ parseState = "none"
    /\ addedSpecs = << >>
    /\ updated = FALSE
    /\ outcome = NoOutcome

\* entries = parseDiffEntries(diffOutput)
ParseDiffEntries ==
    /\ pc = "text"
    /\ LET r == parseDiffEntries(diffOutput)
       IN  /\ parseState' = IF r.threw THEN "threw" ELSE "returned"
           /\ entries' = r.entries
           /\ pc' = IF r.threw THEN "failed" ELSE "entries"
    /\ UNCHANGED <<diffOutput, addedSpecs, updated, outcome>>
    /\ UNCHANGED <<scoreboardVars, cliVars, reactionVars, promptVars, bundleVars>>

\* addedSpecs = getAddedSpecArtifacts(entries)
GetAddedSpecArtifacts ==
    /\ pc = "entries"
    /\ addedSpecs' = getAddedSpecArtifacts(entries)
    /\ pc' = "classified"
    /\ UNCHANGED <<diffOutput, entries, parseState, updated, outcome>>
    /\ UNCHANGED <<scoreboardVars, cliVars, reactionVars, promptVars, bundleVars>>

\* updated = hasScoreboardUpdate(entries)
HasScoreboardUpdate ==
    /\ pc = "classified"
    /\ updated' = hasScoreboardUpdate(entries)
    /\ pc' = "detected"
    /\ UNCHANGED <<diffOutput, entries, parseState, addedSpecs, outcome>>
    /\ UNCHANGED <<scoreboardVars, cliVars, reactionVars, promptVars, bundleVars>>

\* enforceSpecToImplementationTracking(entries), its result recorded in outcome
EnforceSpecToImplementationTracking ==
    /\ pc = "detected"
    /\ outcome' = enforceSpecToImplementationTracking(entries)
    /\ pc' = "done"
    /\ UNCHANGED <<diffOutput, entries, parseState, addedSpecs, updated>>
    /\ UNCHANGED <<scoreboardVars, cliVars, reactionVars, promptVars, bundleVars>>

Next ==
    \/ ParseDiffEntries
    \/ GetAddedSpecArtifacts
    \/ HasScoreboardUpdate
    \/ EnforceSpecToImplementationTracking

Spec == Init /\ [][Next]_vars

---------------------------------------------------------------------------
(* Properties of the scoreboard guard *)

\* The set of the elements of a sequence.
Range(seq) == {seq[i] : i \in DOMAIN seq}

\* seq is in strictly ascending lexical order (so no element occurs twice).
StrictlyAscending(seq) == \A i \in 1..(Len(seq) - 1) : lexLess(seq[i], seq[i + 1])

\* The paths of the entries es that are additions of spec artifacts.
AddedSpecPaths(es) ==
    {es[i].path : i \in {j \in DOMAIN es : es[j].status = A /\ isSpecArtifact(es[j].path)}}

\* Some entry of es is for exactly the scoreboard path and is not a deletion.
ScoreboardTouched(es) ==
    \E i \in DOMAIN es : es[i].path = SCOREBOARD_PATH /\ es[i].status # D

\* sub occurs in s.
Contains(s, sub) ==
    \E i \in 1..(Len(s) - Len(sub) + 1) : SubSeq(s, i, i + Len(sub) - 1) = sub

\* es rearranged by the permutation p of its indices.
Permute(es, p) == [i \in DOMAIN es |-> es[p[i]]]

\* C1: enforceSpecToImplementationTracking throws if and only if
\* getAddedSpecArtifacts(entries) is non-empty and hasScoreboardUpdate(entries)
\* is false; in every other case it returns without throwing.
C1_EnforceThrowsIff ==
    pc = "done" => (outcome.threw <=> (addedSpecs # << >> /\ ~updated))

C1_Witness ==
    /\ pc = "done"
    /\ parseState = "returned"
    /\ outcome.threw
    /\ addedSpecs # << >>

\* C2: hasScoreboardUpdate(entries) is true if and only if some entry has path
\* exactly the scoreboard path and a status other than "D"; when the scoreboard
\* appears only with status "D" and a spec artifact is added, the guard fails.
C2_ScoreboardUpdateIff ==
    /\ pc \in {"detected", "done"} => (updated <=> ScoreboardTouched(entries))
    /\ (/\ pc = "done"
        /\ AddedSpecPaths(entries) # {}
        /\ \A i \in DOMAIN entries :
              entries[i].path = SCOREBOARD_PATH => entries[i].status = D)
       => outcome.threw

C2_Witness ==
    /\ pc = "done"
    /\ outcome.threw
    /\ ~updated
    /\ \E i \in DOMAIN entries : entries[i] = DiffEntry(D, SCOREBOARD_PATH)

\* The paths the message lists: its lines that start with the bullet, less the bullet.
ListedArtifacts(message) ==
    LET bullets == SelectSeq(split(message, LF), LAMBDA l : startsWith(l, MSG_BULLET))
    IN  [i \in DOMAIN bullets |-> SubSeq(bullets[i], Len(MSG_BULLET) + 1, Len(bullets[i]))]

\* C3: when enforceSpecToImplementationTracking fails, its message lists every
\* added spec artifact path, each once and in ascending lexical order, and names
\* the scoreboard path.
C3_MessageListsArtifacts ==
    (pc = "done" /\ outcome.threw) =>
        /\ StrictlyAscending(ListedArtifacts(outcome.message))
        /\ Range(ListedArtifacts(outcome.message)) = AddedSpecPaths(entries)
        /\ Contains(outcome.message, SCOREBOARD_PATH)

C3_Witness ==
    /\ pc = "done"
    /\ outcome.threw
    /\ Len(ListedArtifacts(outcome.message)) = 2
    /\ Len(entries) = 3

\* C4: getAddedSpecArtifacts returns only paths of entries whose status is
\* exactly "A" and whose path is a spec artifact; a spec artifact path that
\* appears only with another status is never returned and never makes the
\* guard fail.
C4_OnlyAdditionsReturned ==
    /\ pc = "classified" =>
          /\ \A k \in DOMAIN addedSpecs :
                \E i \in DOMAIN entries :
                    /\ entries[i].path = addedSpecs[k]
                    /\ entries[i].status = A
                    /\ isSpecArtifact(entries[i].path)
          /\ \A i \in DOMAIN entries :
                (\A j \in DOMAIN entries :
                    entries[j].path = entries[i].path => entries[j].status # A)
                => entries[i].path \notin Range(addedSpecs)
    /\ (pc = "done" /\ outcome.threw) =>
          \E i \in DOMAIN entries : entries[i].status = A /\ isSpecArtifact(entries[i].path)

C4_Witness ==
    /\ pc = "done"
    /\ ~outcome.threw
    /\ addedSpecs = << >>
    /\ ~updated
    /\ \E i \in DOMAIN entries :
          isSpecArtifact(entries[i].path) /\ entries[i].status \in {M, R100, C75}

\* C5: getAddedSpecArtifacts returns each qualifying path exactly once and in
\* ascending lexical order, and returns the same for every permutation and
\* every duplication of the entries.
C5_SortedUniqueOrderIndependent ==
    pc = "classified" =>
        /\ StrictlyAscending(addedSpecs)
        /\ Range(addedSpecs) = AddedSpecPaths(entries)
        /\ \A p \in Permutations(DOMAIN entries) :
              getAddedSpecArtifacts(Permute(entries, p)) = addedSpecs
        /\ \A i \in DOMAIN entries :
              getAddedSpecArtifacts(Append(entries, entries[i])) = addedSpecs

C5_Witness ==
    /\ pc = "classified"
    /\ Len(entries) = 3
    /\ entries[1] = DiffEntry(A, FOO_MD)
    /\ entries[2] = DiffEntry(A, BAR_MD)
    /\ entries[3] = entries[1]
    /\ addedSpecs = <<BAR_MD, FOO_MD>>

\* C6 as the specification states it: isSpecArtifact("docs/planning/foo.md") is
\* true, and it is false for "docs/planning/README.md", "docs/planning/foo.txt"
\* and "other/foo.md".
C6_Original ==
    pc = "classified" =>
        \A i \in DOMAIN entries :
            LET p == entries[i].path
            IN  /\ p = DOCS_PLANNING_FOO_MD => isSpecArtifact(p)
                /\ p = DOCS_PLANNING_README_MD => ~isSpecArtifact(p)
                /\ p = DOCS_PLANNING_FOO_TXT => ~isSpecArtifact(p)
                /\ p = OTHER_FOO_MD => ~isSpecArtifact(p)

\* C6, amended: isSpecArtifact is true for ".GITHUB-MODE/docs/planning/foo.md"
\* and false for ".GITHUB-MODE/docs/planning/README.md",
\* ".GITHUB-MODE/docs/planning/foo.txt", "other/foo.md" and for the paths
\* "docs/planning/foo.md", "docs/planning/README.md" and "docs/planning/foo.txt",
\* which lack the ".GITHUB-MODE/" prefix; so of these only the first is ever
\* returned by getAddedSpecArtifacts.
C6_ExamplesUnderPrefix ==
    pc = "classified" =>
        \A i \in DOMAIN entries :
            LET p == entries[i].path
            IN  /\ p = FOO_MD => isSpecArtifact(p)
                /\ p = PLANNING_README => ~isSpecArtifact(p)
                /\ p = FOO_TXT => ~isSpecArtifact(p)
                /\ p = OTHER_FOO_MD => ~isSpecArtifact(p)
                /\ p \in {DOCS_PLANNING_FOO_MD, DOCS_PLANNING_README_MD,
                          DOCS_PLANNING_FOO_TXT} => ~isSpecArtifact(p)
                /\ (p = FOO_MD /\ entries[i].status = A) => p \in Range(addedSpecs)
                /\ p \in {PLANNING_README, FOO_TXT, OTHER_FOO_MD, DOCS_PLANNING_FOO_MD,
                          DOCS_PLANNING_README_MD, DOCS_PLANNING_FOO_TXT}
                      => p \notin Range(addedSpecs)

C6_Witness ==
    /\ pc = "classified"
    /\ addedSpecs = <<FOO_MD>>
    /\ parseState = "returned"
    /\ entries = <<DiffEntry(A, DOCS_PLANNING_FOO_MD), DiffEntry(A, FOO_MD)>>

\* p is a prefix of s, character by character.
HasPrefix(s, p) == Len(s) >= Len(p) /\ \A i \in 1..Len(p) : s[i] = p[i]

\* p is a suffix of s, character by character.
HasSuffix(s, p) == Len(s) >= Len(p) /\ \A i \in 1..Len(p) : s[Len(s) - Len(p) + i] = p[i]

\* C7: isSpecArtifact(path) is true if and only if the path starts with
\* SPEC_ARTIFACT_PREFIX, ends with ".md" and does not end with "/README.md"; a
\* README.md at any depth under the planning directory is not returned as an
\* added spec artifact and adding it does not make the guard fail.
C7_SpecArtifactIff ==
    /\ pc = "classified" =>
          \A i \in DOMAIN entries :
              isSpecArtifact(entries[i].path) <=>
                  /\ HasPrefix(entries[i].path, SPEC_ARTIFACT_PREFIX)
                  /\ HasSuffix(entries[i].path, MD_EXT)
                  /\ ~HasSuffix(entries[i].path, README_SUFFIX)
    /\ pc = "classified" =>
          \A k \in DOMAIN addedSpecs : ~HasSuffix(addedSpecs[k], README_SUFFIX)
    /\ (pc = "done" /\ outcome.threw) =>
          \E i \in DOMAIN entries :
              /\ entries[i].status = A
              /\ HasPrefix(entries[i].path, SPEC_ARTIFACT_PREFIX)
              /\ HasSuffix(entries[i].path, MD_EXT)
              /\ ~HasSuffix(entries[i].path, README_SUFFIX)

C7_Witness ==
    /\ pc = "done"
    /\ ~outcome.threw
    /\ ~updated
    /\ \E i \in DOMAIN entries : entries[i] = DiffEntry(A, PLANNING_SUB_README)
    /\ \A i \in DOMAIN entries : HasSuffix(entries[i].path, README_SUFFIX)

---------------------------------------------------------------------------
(* Properties of the diff parser *)

\* The lines of the text handed to parseDiffEntries.
TextLines == split(diffOutput, LF)

\* The number of tab-separated fields of a line.
NumFields(line) == Cardinality({i \in 1..Len(line) : line[i] = TAB}) + 1

\* The trimmed first field of a line.
StatusOf(line) == trim(split(line, TAB)[1])

\* The line has two fields or more and its trimmed status starts with R or C.
IsRenameOrCopy(line) ==
    /\ NumFields(line) >= 2
    /\ StatusOf(line) # << >>
    /\ StatusOf(line)[1] \in {"R", "C"}

\* The line carries a new path: a third field that is not empty.
HasNewPath(line) == NumFields(line) >= 3 /\ split(line, TAB)[3] # << >>

\* The number of entries a line is to yield.
ExpectedCount(line) ==
    IF NumFields(line) < 2 THEN 0
    ELSE IF IsRenameOrCopy(line) /\ HasNewPath(line) THEN 2
    ELSE 1

\* The number of entries the first k lines of ls are to yield.
RECURSIVE ExpectedBefore(_, _)
ExpectedBefore(ls, k) ==
    IF k = 0 THEN 0 ELSE ExpectedBefore(ls, k - 1) + ExpectedCount(ls[k])

\* C8: parseDiffEntries never fails; blank lines and lines with fewer than two
\* tab-separated fields contribute no entry (the result is that of the text
\* without them), and every entry comes from a line with two fields or more.
C8_MalformedLinesSkipped ==
    /\ parseState # "threw"
    /\ (pc = "entries" /\ parseState = "returned") =>
          LET good == SelectSeq(TextLines, LAMBDA l : NumFields(l) >= 2)
          IN  /\ entries = parseDiffEntries(join(good, <<LF>>)).entries
              /\ Len(good) <= Len(entries)
              /\ Len(entries) <= 2 * Len(good)
              /\ \A i \in DOMAIN entries :
                    \E k \in DOMAIN good :
                        LET f == split(good[k], TAB)
                        IN  /\ entries[i].status = trim(f[1])
                            /\ \/ entries[i].path = trim(f[2])
                               \/ Len(f) >= 3 /\ entries[i].path = trim(f[3])

C8_Witness ==
    /\ pc = "entries"
    /\ parseState = "returned"
    /\ Len(TextLines) = 2
    /\ TextLines[1] = A
    /\ NumFields(TextLines[2]) = 2
    /\ Len(entries) = 1

\* C9: a line whose trimmed status starts with R or C and that carries an old
\* and a new path yields exactly two entries, the old path then the new path,
\* both with the full status; with one path only it yields exactly one entry.
C9_RenameOrCopyLines ==
    (pc = "entries" /\ parseState = "returned") =>
        /\ Len(entries) = ExpectedBefore(TextLines, Len(TextLines))
        /\ \A k \in DOMAIN TextLines :
              IsRenameOrCopy(TextLines[k]) =>
                  LET f == split(TextLines[k], TAB)
                      off == ExpectedBefore(TextLines, k - 1)
                  IN  /\ entries[off + 1] = DiffEntry(StatusOf(TextLines[k]), trim(f[2]))
                      /\ HasNewPath(TextLines[k]) =>
                            entries[off + 2] = DiffEntry(StatusOf(TextLines[k]), trim(f[3]))

C9_Witness ==
    /\ pc = "entries"
    /\ parseState = "returned"
    /\ diffOutput = join(<<R100, OLD_A_MD, NEW_A_MD>>, <<TAB>>)
    /\ entries = <<DiffEntry(R100, OLD_A_MD), DiffEntry(R100, NEW_A_MD)>>

\* C10: a line whose status does not start with R or C yields exactly one
\* entry, the trimmed first field as status and the trimmed second field as
\* path, further fields ignored; the entries are in input line order, unsorted
\* and with repetitions kept.
C10_PlainLinesInOrder ==
    (pc = "entries" /\ parseState = "returned") =>
        /\ Len(entries) = ExpectedBefore(TextLines, Len(TextLines))
        /\ \A k \in DOMAIN TextLines :
              (NumFields(TextLines[k]) >= 2 /\ ~IsRenameOrCopy(TextLines[k])) =>
                  /\ ExpectedCount(TextLines[k]) = 1
                  /\ entries[ExpectedBefore(TextLines, k - 1) + 1] =
                        DiffEntry(StatusOf(TextLines[k]), trim(split(TextLines[k], TAB)[2]))

C10_Witness ==
    /\ pc = "entries"
    /\ parseState = "returned"
    /\ TextLines = <<join(<<A, FOO_MD>>, <<TAB>>), join(<<A, FOO_MD>>, <<TAB>>)>>
    /\ entries = <<DiffEntry(A, FOO_MD), DiffEntry(A, FOO_MD)>>

\* The line adds or modifies the scoreboard file.
AddsOrModifiesScoreboard(line) ==
    /\ NumFields(line) >= 2
    /\ StatusOf(line) \in {A, M}
    /\ trim(split(line, TAB)[2]) = SCOREBOARD_PATH

\* The line renames or copies a file onto the scoreboard path.
RenamesOrCopiesOntoScoreboard(line) ==
    /\ IsRenameOrCopy(line)
    /\ HasNewPath(line)
    /\ trim(split(line, TAB)[3]) = SCOREBOARD_PATH

\* C18: for a diff text run through parseDiffEntries, a line that adds or
\* modifies the scoreboard path, or a rename or copy line whose new path is
\* the scoreboard path, makes hasScoreboardUpdate true.
C18_UpdateLinesDetected ==
    (pc = "detected" /\ parseState = "returned") =>
        ((\E k \in DOMAIN TextLines :
              \/ AddsOrModifiesScoreboard(TextLines[k])
              \/ RenamesOrCopiesOntoScoreboard(TextLines[k]))
         => updated)

C18_Witness ==
    /\ pc = "detected"
    /\ parseState = "returned"
    /\ diffOutput = join(<<R100, OTHER_FOO_MD, SCOREBOARD_PATH>>, <<TAB>>)
    /\ updated

\* The line renames or copies the scoreboard file to another path.
RenamesOrCopiesScoreboardAway(line) ==
    /\ IsRenameOrCopy(line)
    /\ trim(split(line, TAB)[2]) = SCOREBOARD_PATH

\* The line adds a spec artifact.
AddsSpecArtifact(line) ==
    /\ NumFields(line) >= 2
    /\ StatusOf(line) = A
    /\ trim(split(line, TAB)[2]) \in {FOO_MD, BAR_MD}

\* C30: for a diff text run through parseDiffEntries, a rename or copy line
\* whose old path is the scoreboard path makes hasScoreboardUpdate true, as
\* one whose new path is the scoreboard path does; a change that adds a spec
\* artifact and renames the scoreboard away passes the guard.
C30_RenamedAwayCountsAsUpdate ==
    (pc = "done" /\ parseState = "returned") =>
        /\ (\E k \in DOMAIN TextLines : RenamesOrCopiesScoreboardAway(TextLines[k]))
              => (updated /\ ~outcome.threw)
        /\ (\E k \in DOMAIN TextLines : RenamesOrCopiesOntoScoreboard(TextLines[k]))
              => (updated /\ ~outcome.threw)

C30_Witness ==
    /\ pc = "done"
    /\ parseState = "returned"
    /\ Len(TextLines) = 2
    /\ AddsSpecArtifact(TextLines[1])
    /\ TextLines[2] = join(<<R100, SCOREBOARD_PATH, OTHER_FOO_MD>>, <<TAB>>)
    /\ addedSpecs = <<FOO_MD>>
    /\ updated
    /\ ~outcome.threw

---------------------------------------------------------------------------
(* check-implementation-scoreboard.ts: the scoreboard validator *)

\* const allowedStates: ScoreState[] = ["spec-only", "scaffold", "operational"]
allowedStates == <<"spec-only", "scaffold", "operational">>

\* allowedStates.includes(state)
isAllowedState(state) == \E i \in DOMAIN allowedStates : allowedStates[i] = state

\* type Capability = { id: string; description: string; state: ScoreState }
Capability(id, description, state) ==
    [id |-> id, description |-> description, state |-> state]

\* type Scoreboard: isArray is Array.isArray(scoreboard.capabilities).
Scoreboard(capabilities) == [isArray |-> TRUE, capabilities |-> capabilities]

\* validateScoreboard returned.
Valid == [called |-> TRUE, threw |-> FALSE, error |-> "", id |-> "", state |-> ""]

\* validateScoreboard threw: error names the Error (lines 113, 119, 122, 127),
\* id and state are the values its message quotes.
Invalid(error, id, state) ==
    [called |-> TRUE, threw |-> TRUE, error |-> error, id |-> id, state |-> state]

\* As it must not be: the description not looked at.
hasEmptyId(capability) == capability.id = ""

\* !capability.id || !capability.description
hasEmptyField(capability) == capability.id = "" \/ capability.description = ""

\* The loop of validateScoreboard over the capabilities; ids is the Set of the
\* ids seen so far.
RECURSIVE validateCapabilities(_, _)
validateCapabilities(capabilities, ids) ==
    IF capabilities = << >> THEN Valid
    ELSE LET capability == capabilities[1]
         IN  IF hasEmptyField(capability)
               THEN Invalid("empty-field", "", "")
             ELSE IF capability.id \in ids
               THEN Invalid("duplicate-id", capability.id, "")
             ELSE IF ~isAllowedState(capability.state)
               THEN Invalid("invalid-state", capability.id, capability.state)
             ELSE validateCapabilities(Tail(capabilities), ids \cup {capability.id})

\* As it must not be: each rule enforced over all the capabilities before the next.
validateScoreboardRuleByRule(sb) ==
    LET caps == sb.capabilities
        dup == {j \in DOMAIN caps : \E i \in 1..(j - 1) : caps[i].id = caps[j].id}
        bad == {j \in DOMAIN caps : ~isAllowedState(caps[j].state)}
        first(S) == CHOOSE j \in S : \A k \in S : j <= k
    IN  IF ~sb.isArray \/ Len(caps) = 0 THEN Invalid("no-capability", "", "")
        ELSE IF \E j \in DOMAIN caps : hasEmptyField(caps[j])
          THEN Invalid("empty-field", "", "")
        ELSE IF dup # {} THEN Invalid("duplicate-id", caps[first(dup)].id, "")
        ELSE IF bad # {}
          THEN Invalid("invalid-state", caps[first(bad)].id, caps[first(bad)].state)
        ELSE Valid

\* export function validateScoreboard(scoreboard: Scoreboard): void
validateScoreboard(sb) ==
    IF ~sb.isArray \/ Len(sb.capabilities) = 0
      THEN Invalid("no-capability", "", "")
    ELSE validateCapabilities(sb.capabilities, {})

\* The capabilities the model draws from: ids and descriptions empty or not,
\* the three states and one that is none of them.
CapabilityPool ==
    {Capability(id, description, state) :
        id \in {"", "a", "b"},
        description \in {"", "d"},
        state \in {"spec-only", "scaffold", "operational", "done"}}

\* Most capabilities of a scoreboard.
MaxCapabilities == 2

\* The scoreboards handed to validateScoreboard; NoScoreboard is one whose
\* capabilities field is no array.
Scoreboards ==
    {NoScoreboard} \cup {Scoreboard(cs) : cs \in SeqsUpTo(CapabilityPool, MaxCapabilities)}

InitValidate ==
    /\ PromptAtRest
    /\ BundleAtRest
    /\ GuardAtRest
    /\ CliAtRest
    /\ ReactionAtRest
    /\ scoreboard \in Scoreboards
    /\ validation = NotValidated

\* validateScoreboard(scoreboard), its result recorded in validation
ValidateScoreboard ==
    /\ ~validation.called
    /\ validation' = validateScoreboard(scoreboard)
    /\ UNCHANGED <<scoreboard, guardVars, cliVars, reactionVars, promptVars, bundleVars>>

NextValidate == ValidateScoreboard

SpecValidate == InitValidate /\ [][NextValidate]_vars

---------------------------------------------------------------------------
(* Properties of the scoreboard validator *)

\* The rules of the validator that the scoreboard sb violates, by number.
EmptyFieldAt(sb, j) == sb.capabilities[j].id = "" \/ sb.capabilities[j].description = ""

DuplicateAt(sb, j) == \E i \in 1..(j - 1) : sb.capabilities[i].id = sb.capabilities[j].id

BadStateAt(sb, j) == sb.capabilities[j].state \notin {"spec-only", "scaffold", "operational"}

ViolatedRules(sb) ==
    (IF ~sb.isArray \/ sb.capabilities = << >> THEN {1} ELSE {})
    \cup (IF \E j \in DOMAIN sb.capabilities : EmptyFieldAt(sb, j) THEN {2} ELSE {})
    \cup (IF \E j \in DOMAIN sb.capabilities : DuplicateAt(sb, j) THEN {3} ELSE {})
    \cup (IF \E j \in DOMAIN sb.capabilities : BadStateAt(sb, j) THEN {4} ELSE {})

\* The number of the rule whose error was thrown.
RuleOf(error) ==
    CASE error = "no-capability" -> 1
      [] error = "empty-field" -> 2
      [] error = "duplicate-id" -> 3
      [] error = "invalid-state" -> 4
      [] OTHER -> 0

\* C11: validateScoreboard throws if and only if capabilities is not a
\* non-empty array, or some capability has an empty id or description, or two
\* capabilities share an id, or some state is outside the three allowed; a
\* scoreboard with none of these returns without throwing.
C11_ValidateThrowsIff ==
    validation.called => (validation.threw <=> ViolatedRules(scoreboard) # {})

C11_Witness ==
    /\ validation.called
    /\ ~validation.threw
    /\ Len(scoreboard.capabilities) = 2
    /\ scoreboard.capabilities[1].state # scoreboard.capabilities[2].state

\* C12 as the specification states it: for a scoreboard that violates several
\* rules, the error thrown is that of the lowest-numbered violated rule,
\* whichever capabilities violate them.
C12_Original ==
    validation.threw => RuleOf(validation.error) = Min(ViolatedRules(scoreboard))

\* The rules the j-th capability violates, given the ones before it.
ViolatedAt(sb, j) ==
    (IF EmptyFieldAt(sb, j) THEN {2} ELSE {})
    \cup (IF DuplicateAt(sb, j) THEN {3} ELSE {})
    \cup (IF BadStateAt(sb, j) THEN {4} ELSE {})

\* C12, amended: rule 1 is enforced first; then the capabilities are visited in
\* order and rules 2, 3 (against the ids of the earlier capabilities) and 4 are
\* enforced on each in turn, failing fast: the error thrown is that of the first
\* capability that violates a rule, and of the lowest-numbered rule it violates.
C12_FirstCapabilityFirstRule ==
    validation.threw =>
        IF 1 \in ViolatedRules(scoreboard) THEN validation.error = "no-capability"
        ELSE LET k == Min({j \in DOMAIN scoreboard.capabilities :
                              ViolatedAt(scoreboard, j) # {}})
             IN  /\ RuleOf(validation.error) = Min(ViolatedAt(scoreboard, k))
                 /\ RuleOf(validation.error) \in {3, 4} =>
                       validation.id = scoreboard.capabilities[k].id

C12_Witness ==
    /\ validation.threw
    /\ validation.error = "invalid-state"
    /\ Len(scoreboard.capabilities) = 2
    /\ scoreboard.capabilities[2].id = ""

---------------------------------------------------------------------------
(* check-implementation-scoreboard.ts: the command line check (main) *)

\* As it must not be: master probed before main.
branchesMasterFirst == <<"master", "main">>

\* for (const branch of ["main", "master"])
branches == <<"main", "master">>

\* `origin/${branch}`
originRef(branch) == "origin/" \o branch

\* return "HEAD~1"
PREVIOUS_COMMIT == "HEAD~1"

\* As it must not be: the failure of git diff not caught.
getDiffEntriesUncaught(diff) ==
    IF ~diff.ok THEN [threw |-> TRUE, entries |-> << >>]
    ELSE [threw |-> FALSE, entries |-> parseDiffEntries(trim(diff.stdout)).entries]

\* function getDiffEntries(): DiffEntry[], once the base ref is known; diff is
\* how execSync ends.  Whatever the try block throws is caught: [] is returned.
getDiffEntries(diff) ==
    IF ~diff.ok THEN [threw |-> FALSE, entries |-> << >>]
    ELSE LET out == trim(diff.stdout)
             r == parseDiffEntries(out)
         IN  IF out = << >> THEN [threw |-> FALSE, entries |-> << >>]
             ELSE IF r.threw THEN [threw |-> FALSE, entries |-> << >>]
             ELSE [threw |-> FALSE, entries |-> r.entries]

\* As it must not be: a file that cannot be read or parsed taken for an empty scoreboard.
loadScoreboardSwallowing(file) ==
    IF file.kind = "object" THEN [threw |-> FALSE, error |-> "", value |-> file.value]
    ELSE [threw |-> FALSE, error |-> "", value |-> NoScoreboard]

\* export function loadScoreboard(path): readFileSync throws when the file is
\* missing, JSON.parse when its text is not JSON.
loadScoreboard(file) ==
    CASE file.kind = "missing" -> [threw |-> TRUE, error |-> "ENOENT", value |-> NoScoreboard]
      [] file.kind = "garbage" -> [threw |-> TRUE, error |-> "SyntaxError", value |-> NoScoreboard]
      [] OTHER -> [threw |-> FALSE, error |-> "", value |-> file.value]

\* export function getScoreCounts(scoreboard)
getScoreCounts(sb) ==
    [st \in {"spec-only", "scaffold", "operational"} |->
        Cardinality({i \in DOMAIN sb.capabilities : sb.capabilities[i].state = st})]

\* export function renderSummaryMarkdown(scoreboard): the numbers its lines show
renderSummaryMarkdown(sb) ==
    LET counts == getScoreCounts(sb)
        total == Len(sb.capabilities)
    IN  <<total, counts["operational"], counts["scaffold"], counts["spec-only"],
          <<counts["operational"], total>>>>

\* console.error(`❌ ${message}`)
ErrorLine(error) == [stream |-> "stderr", kind |-> "error", error |-> error, summary |-> << >>]

\* console.log("✅ Implementation scoreboard is valid and spec tracking guard passed.")
SuccessLine == [stream |-> "stdout", kind |-> "success", error |-> "", summary |-> << >>]

\* console.log(renderSummaryMarkdown(scoreboard))
SummaryLine(sb) ==
    [stream |-> "stdout", kind |-> "summary", error |-> "", summary |-> renderSummaryMarkdown(sb)]

\* As it must not be: the --summary flag not looked at.
afterValidationEnforce(flag) == "enforce"

\* if (process.argv.includes("--summary")) ... : where main goes on after validation
afterValidation(flag) == IF flag THEN "summary" ELSE "enforce"

\* The lines the diff of the command line check is made of.
MainLineFields ==
    {<<A, FOO_MD>>, <<M, SCOREBOARD_PATH>>, <<D, SCOREBOARD_PATH>>}

\* What `git diff --name-status` may do: fail, or print lines, each ended by a newline.
GitDiffResults ==
    {[ok |-> FALSE, stdout |-> << >>]}
    \cup {[ok |-> TRUE, stdout |-> join(ls \o <<EMPTY>>, <<LF>>)] :
            ls \in SeqsUpTo({join(fs, <<TAB>>) : fs \in MainLineFields}, MaxLines)}

\* The capabilities of the scoreboard files.
MainCapabilityPool ==
    {Capability("a", "d", "operational"), Capability("b", "d", "spec-only"),
     Capability("a", "d", "done")}

\* The scoreboard file: missing, not JSON, or a JSON object.
ScoreboardFiles ==
    {NoFile, [kind |-> "garbage", value |-> NoScoreboard],
     [kind |-> "object", value |-> NoScoreboard]}
    \cup {[kind |-> "object", value |-> Scoreboard(cs)] :
            cs \in SeqsUpTo(MainCapabilityPool, MaxCapabilities)}

InitMain ==
    /\ PromptAtRest
    /\ BundleAtRest
    /\ ReactionAtRest
    /\ pc = "determineBaseRef"
    /\ diffOutput = << >>
    /\ entries = << >>
    /\ parseState = "none"
    /\ addedSpecs = << >>
    /\ updated = FALSE
    /\ outcome = NoOutcome
    /\ ScoreboardAtRest
    /\ originRefs \in SUBSET {originRef(branches[i]) : i \in DOMAIN branches}
    /\ gitDiff \in GitDiffResults
    /\ scoreboardFile \in ScoreboardFiles
    /\ summaryFlag \in BOOLEAN
    /\ probed = << >>
    /\ baseRef = ""
    /\ calls = << >>
    /\ printed = << >>
    /\ exitCode = 0

\* As it must not be: the error reported, the exit code left at zero.
ExitWithErrorExitZero(error) ==
    /\ printed' = Append(printed, ErrorLine(error))
    /\ exitCode' = 0
    /\ pc' = "exited"

\* catch (error) { console.error(`❌ ${message}`); process.exit(1); }
ExitWithError(error) ==
    /\ printed' = Append(printed, ErrorLine(error))
    /\ exitCode' = 1
    /\ pc' = "exited"

\* One pass of the loop of determineBaseRef: the next branch is probed, and
\* returned if the probe succeeds.
ProbeBranch ==
    /\ pc = "determineBaseRef"
    /\ Len(probed) < Len(branches)
    /\ LET ref == originRef(branches[Len(probed) + 1])
       IN  /\ probed' = Append(probed, ref)
           /\ IF ref \in originRefs
                THEN baseRef' = ref /\ pc' = "gitDiff"
                ELSE UNCHANGED <<baseRef, pc>>
    /\ UNCHANGED <<diffOutput, entries, parseState, addedSpecs, updated, outcome>>
    /\ UNCHANGED <<originRefs, gitDiff, scoreboardFile, summaryFlag, calls, printed, exitCode>>
    /\ UNCHANGED scoreboardVars
    /\ UNCHANGED <<reactionVars, promptVars, bundleVars>>

\* determineBaseRef after its loop: return "HEAD~1"
FallBackToPreviousCommit ==
    /\ pc = "determineBaseRef"
    /\ Len(probed) = Len(branches)
    /\ baseRef' = PREVIOUS_COMMIT
    /\ pc' = "gitDiff"
    /\ UNCHANGED <<diffOutput, entries, parseState, addedSpecs, updated, outcome>>
    /\ UNCHANGED <<originRefs, gitDiff, scoreboardFile, summaryFlag, probed, calls, printed,
                   exitCode>>
    /\ UNCHANGED scoreboardVars
    /\ UNCHANGED <<reactionVars, promptVars, bundleVars>>

\* const entries = getDiffEntries(), after determineBaseRef
GetDiffEntries ==
    /\ pc = "gitDiff"
    /\ calls' = Append(calls, "getDiffEntries")
    /\ diffOutput' = IF gitDiff.ok THEN trim(gitDiff.stdout) ELSE << >>
    /\ LET r == getDiffEntries(gitDiff)
       IN  IF r.threw
             THEN ExitWithError("git diff") /\ UNCHANGED entries
             ELSE entries' = r.entries /\ pc' = "loadScoreboard"
                  /\ UNCHANGED <<printed, exitCode>>
    /\ UNCHANGED <<parseState, addedSpecs, updated, outcome>>
    /\ UNCHANGED <<originRefs, gitDiff, scoreboardFile, summaryFlag, probed, baseRef>>
    /\ UNCHANGED scoreboardVars
    /\ UNCHANGED <<reactionVars, promptVars, bundleVars>>

\* const scoreboard = loadScoreboard()
LoadScoreboard ==
    /\ pc = "loadScoreboard"
    /\ calls' = Append(calls, "loadScoreboard")
    /\ LET r == loadScoreboard(scoreboardFile)
       IN  IF r.threw
             THEN ExitWithError(r.error) /\ UNCHANGED scoreboard
             ELSE scoreboard' = r.value /\ pc' = "validateScoreboard"
                  /\ UNCHANGED <<printed, exitCode>>
    /\ UNCHANGED <<diffOutput, entries, parseState, addedSpecs, updated, outcome>>
    /\ UNCHANGED <<originRefs, gitDiff, scoreboardFile, summaryFlag, probed, baseRef>>
    /\ UNCHANGED validation
    /\ UNCHANGED <<reactionVars, promptVars, bundleVars>>

\* validateScoreboard(scoreboard) in main
MainValidateScoreboard ==
    /\ pc = "validateScoreboard"
    /\ calls' = Append(calls, "validateScoreboard")
    /\ validation' = validateScoreboard(scoreboard)
    /\ IF validation'.threw
         THEN ExitWithError(validation'.error)
         ELSE pc' = afterValidation(summaryFlag) /\ UNCHANGED <<printed, exitCode>>
    /\ UNCHANGED <<diffOutput, entries, parseState, addedSpecs, updated, outcome>>
    /\ UNCHANGED <<originRefs, gitDiff, scoreboardFile, summaryFlag, probed, baseRef>>
    /\ UNCHANGED scoreboard
    /\ UNCHANGED <<reactionVars, promptVars, bundleVars>>

\* console.log(renderSummaryMarkdown(scoreboard)); return  (the --summary branch)
PrintSummary ==
    /\ pc = "summary"
    /\ calls' = Append(calls, "renderSummaryMarkdown")
    /\ printed' = Append(printed, SummaryLine(scoreboard))
    /\ exitCode' = 0
    /\ pc' = "exited"
    /\ UNCHANGED <<diffOutput, entries, parseState, addedSpecs, updated, outcome>>
    /\ UNCHANGED <<originRefs, gitDiff, scoreboardFile, summaryFlag, probed, baseRef>>
    /\ UNCHANGED scoreboardVars
    /\ UNCHANGED <<reactionVars, promptVars, bundleVars>>

\* enforceSpecToImplementationTracking(entries) and the two lines main prints after it
MainEnforce ==
    /\ pc = "enforce"
    /\ calls' = Append(calls, "enforceSpecToImplementationTracking")
    /\ outcome' = enforceSpecToImplementationTracking(entries)
    /\ IF outcome'.threw
         THEN ExitWithError("tracking")
         ELSE /\ printed' = printed \o <<SuccessLine, SummaryLine(scoreboard)>>
              /\ exitCode' = 0
              /\ pc' = "exited"
    /\ UNCHANGED <<diffOutput, entries, parseState, addedSpecs, updated>>
    /\ UNCHANGED <<originRefs, gitDiff, scoreboardFile, summaryFlag, probed, baseRef>>
    /\ UNCHANGED scoreboardVars
    /\ UNCHANGED <<reactionVars, promptVars, bundleVars>>

NextMain ==
    \/ ProbeBranch
    \/ FallBackToPreviousCommit
    \/ GetDiffEntries
    \/ LoadScoreboard
    \/ MainValidateScoreboard
    \/ PrintSummary
    \/ MainEnforce

SpecMain == InitMain /\ [][NextMain]_vars

---------------------------------------------------------------------------
(* Properties of the command line check *)

\* The kinds of the lines printed, in order.
Kinds(lines) == [i \in DOMAIN lines |-> lines[i].kind]

\* The scoreboard file is there and is JSON.
FileLoads == scoreboardFile.kind = "object"

\* The diff of the run adds a spec artifact and does not touch the scoreboard.
DiffBreaksTracking == AddedSpecPaths(entries) # {} /\ ~ScoreboardTouched(entries)

\* C13 as the specification states it: in every invocation validateScoreboard
\* has run before anything is printed.
C13_Original == printed # << >> => validation.called

\* C13, amended: nothing is printed before the scoreboard file was read; in
\* every invocation in which the file loads, with or without --summary and
\* whatever the diff adds, validateScoreboard has run on the loaded scoreboard
\* before anything is printed; a scoreboard that fails validation ends the run
\* with one error line and a non-zero exit code, and neither the summary nor
\* the success line is printed.
C13_ValidatedBeforePrinting ==
    /\ printed # << >> => "loadScoreboard" \in Range(calls)
    /\ (printed # << >> /\ FileLoads) =>
          /\ validation.called
          /\ scoreboard = scoreboardFile.value
    /\ (validation.called /\ ViolatedRules(scoreboard) # {}) =>
          /\ pc = "exited"
          /\ Kinds(printed) = <<"error">>
          /\ printed[1].stream = "stderr"
          /\ exitCode # 0

C13_Witness ==
    /\ pc = "exited"
    /\ summaryFlag
    /\ entries = << >>
    /\ validation.threw
    /\ exitCode = 1

\* C14: with --summary and a valid scoreboard the run prints the summary and
\* exits with code zero without calling the enforcement, whatever the diff
\* holds; without the flag the enforcement is called and the run ends either
\* with the success line followed by the summary and exit code zero, or with
\* an error line, a non-zero exit code and no success line.
C14_SummaryOrEnforcement ==
    (pc = "exited" /\ validation.called /\ ViolatedRules(scoreboard) = {}) =>
        IF summaryFlag
          THEN /\ Kinds(printed) = <<"summary">>
               /\ exitCode = 0
               /\ "enforceSpecToImplementationTracking" \notin Range(calls)
          ELSE /\ "enforceSpecToImplementationTracking" \in Range(calls)
               /\ IF DiffBreaksTracking
                    THEN Kinds(printed) = <<"error">> /\ exitCode # 0
                    ELSE Kinds(printed) = <<"success", "summary">> /\ exitCode = 0

C14_Witness ==
    /\ pc = "exited"
    /\ summaryFlag
    /\ DiffBreaksTracking
    /\ Kinds(printed) = <<"summary">>
    /\ exitCode = 0

\* C15: when git diff fails or prints nothing, getDiffEntries returns no entry
\* and no error: the run goes on to load the scoreboard with nothing printed;
\* and when the diff failed and the scoreboard is valid, the enforcement pass
\* ends with the success line and exit code zero.
C15_DiffFailureIsEmpty ==
    /\ Len(calls) = 1 =>
          /\ pc = "loadScoreboard"
          /\ printed = << >>
          /\ exitCode = 0
          /\ (~gitDiff.ok \/ gitDiff.stdout = << >>) => entries = << >>
    /\ (/\ pc = "exited"
        /\ ~gitDiff.ok
        /\ ~summaryFlag
        /\ FileLoads
        /\ ViolatedRules(scoreboardFile.value) = {})
       => Kinds(printed) = <<"success", "summary">> /\ exitCode = 0

C15_Witness ==
    /\ pc = "exited"
    /\ ~gitDiff.ok
    /\ ~summaryFlag
    /\ entries = << >>
    /\ Kinds(printed) = <<"success", "summary">>
    /\ exitCode = 0

\* C16: when the scoreboard file is missing or is not JSON, the failure of
\* loadScoreboard reaches the top level: the run ends with the error line of
\* that failure and a non-zero exit code, validation, summary and enforcement
\* never run, with and without --summary and whatever the diff holds.
C16_LoadFailurePropagates ==
    scoreboardFile.kind \in {"missing", "garbage"} =>
        /\ pc \notin {"validateScoreboard", "summary", "enforce"}
        /\ ~validation.called
        /\ pc = "exited" =>
              /\ Kinds(printed) = <<"error">>
              /\ printed[1].error =
                    (IF scoreboardFile.kind = "missing" THEN "ENOENT" ELSE "SyntaxError")
              /\ exitCode # 0

C16_Witness ==
    /\ pc = "exited"
    /\ scoreboardFile.kind = "garbage"
    /\ summaryFlag
    /\ entries = << >>
    /\ exitCode = 1

\* C17: origin/main is probed first and origin/master second, each at most
\* once; origin/master is probed only after the probe of origin/main failed;
\* the base ref is the first of the two whose probe succeeds, and HEAD~1 only
\* after both probes failed.
C17_BaseRefOrder ==
    /\ probed \in {<< >>, <<"origin/main">>, <<"origin/main", "origin/master">>}
    /\ Len(probed) = 2 => "origin/main" \notin originRefs
    /\ pc # "determineBaseRef" =>
          baseRef = (IF "origin/main" \in originRefs THEN "origin/main"
                     ELSE IF "origin/master" \in originRefs THEN "origin/master"
                     ELSE "HEAD~1")
    /\ baseRef = "origin/main" => probed = <<"origin/main">>
    /\ baseRef \in {"origin/master", "HEAD~1"} => Len(probed) = 2
    /\ pc = "determineBaseRef" => baseRef = ""

C17_Witness ==
    /\ baseRef = "origin/master"
    /\ originRefs = {"origin/master"}
    /\ probed = <<"origin/main", "origin/master">>

---------------------------------------------------------------------------
(* signal-reaction.ts: the reaction signal *)

\* The decimal digits.
Digits == <<"0", "1", "2", "3", "4", "5", "6", "7", "8", "9">>

\* `${n}` for a number n that is a non-negative integer
RECURSIVE numberToString(_)
numberToString(n) ==
    IF n < 10 THEN <<Digits[n + 1]>>
    ELSE numberToString(n \div 10) \o <<Digits[(n % 10) + 1]>>

\* `${undefined}`
UNDEFINED_TEXT == <<"u","n","d","e","f","i","n","e","d">>

\* "OWNER"
OWNER == <<"O","W","N","E","R">>

\* "MEMBER"
MEMBER == <<"M","E","M","B","E","R">>

\* "COLLABORATOR"
COLLABORATOR == <<"C","O","L","L","A","B","O","R","A","T","O","R">>

\* "NONE"
NONE == <<"N","O","N","E">>

\* const ALLOWED_ASSOCIATIONS = new Set(["OWNER", "MEMBER", "COLLABORATOR"])
ALLOWED_ASSOCIATIONS == {OWNER, MEMBER, COLLABORATOR}

\* The letters String.prototype.toUpperCase changes, and what it makes of them.
LowerCaseLetters ==
    <<"a", "b", "c", "d", "e", "f", "g", "h", "i", "j", "k", "l", "m",
      "n", "o", "p", "q", "r", "s", "t", "u", "v", "w", "x", "y", "z">>

UpperCaseLetters ==
    <<"A", "B", "C", "D", "E", "F", "G", "H", "I", "J", "K", "L", "M",
      "N", "O", "P", "Q", "R", "S", "T", "U", "V", "W", "X", "Y", "Z">>

\* association.toUpperCase()
toUpperCase(s) ==
    [i \in DOMAIN s |->
        IF \E k \in DOMAIN LowerCaseLetters : LowerCaseLetters[k] = s[i]
          THEN UpperCaseLetters[CHOOSE k \in DOMAIN LowerCaseLetters : LowerCaseLetters[k] = s[i]]
          ELSE s[i]]

\* As it must not be: the association compared as it is written.
isAuthorizedAssociationCaseSensitive(association) == association \in ALLOWED_ASSOCIATIONS

\* export function isAuthorizedAssociation(association: string): boolean
isAuthorizedAssociation(association) == toUpperCase(association) \in ALLOWED_ASSOCIATIONS

\* value ?? fallback
orElse(opt, fallback) == IF opt = None THEN fallback ELSE opt[1]

\* object?.name
field(object, name) == IF object = None THEN None ELSE object[1][name]

\* As it must not be: the association of the issue taken for every event.
parseEventContextIssueAuthor(eventName, payload, repo) ==
    [eventName |-> eventName,
     issueNumber |-> orElse(field(payload.issue, "number"), 0),
     commentId |-> IF eventName = "issue_comment" THEN field(payload.comment, "id") ELSE None,
     repo |-> repo,
     authorAssociation |-> orElse(field(payload.issue, "author_association"), NONE)]

\* export function parseEventContext(eventName, payload, repo): EventContext
parseEventContext(eventName, payload, repo) ==
    IF eventName = "issue_comment"
      THEN [eventName |-> eventName,
            issueNumber |-> orElse(field(payload.issue, "number"), 0),
            commentId |-> field(payload.comment, "id"),
            repo |-> repo,
            authorAssociation |-> orElse(field(payload.comment, "author_association"), NONE)]
      ELSE [eventName |-> eventName,
            issueNumber |-> orElse(field(payload.issue, "number"), 0),
            commentId |-> None,
            repo |-> repo,
            authorAssociation |-> orElse(field(payload.issue, "author_association"), NONE)]

\* export function resolveReactionTarget(eventName: string): ReactionTarget
resolveReactionTarget(eventName) == IF eventName = "issue_comment" THEN "comment" ELSE "issue"

\* As it must not be: a reaction id recorded though none was handed in.
buildReactionStateWithId(ctx, reactionId) ==
    [reactionId |-> Some(1),
     reactionTarget |-> resolveReactionTarget(ctx.eventName),
     commentId |-> ctx.commentId,
     issueNumber |-> ctx.issueNumber,
     repo |-> ctx.repo]

\* export function buildReactionState(context, reactionId): ReactionState
buildReactionState(ctx, reactionId) ==
    [reactionId |-> reactionId,
     reactionTarget |-> resolveReactionTarget(ctx.eventName),
     commentId |-> ctx.commentId,
     issueNumber |-> ctx.issueNumber,
     repo |-> ctx.repo]

\* const [owner, repo] = context.repo.split("/"), as template literals print them
ownerAndRepo(repoName) ==
    LET parts == split(repoName, "/")
        p0 == at(parts, 0)
        p1 == at(parts, 1)
    IN  [owner |-> IF p0.defined THEN p0.value ELSE UNDEFINED_TEXT,
         repo |-> IF p1.defined THEN p1.value ELSE UNDEFINED_TEXT]

\* A number that is neither null nor 0.
truthyNumber(opt) == opt # None /\ opt[1] # 0

\* "api"
API == <<"a","p","i">>

\* "repos/"
REPOS == <<"r","e","p","o","s","/">>

\* "/"
SLASH == <<"/">>

\* "/issues/comments/"
ISSUES_COMMENTS == <<"/","i","s","s","u","e","s","/","c","o","m","m","e","n","t","s","/">>

\* "/issues/"
ISSUES == <<"/","i","s","s","u","e","s","/">>

\* "/reactions"
REACTIONS == <<"/","r","e","a","c","t","i","o","n","s">>

\* "/reactions/"
REACTIONS_SLASH == <<"/","r","e","a","c","t","i","o","n","s","/">>

\* "-f"
DASH_F == <<"-","f">>

\* "content=eyes"
CONTENT_EYES == <<"c","o","n","t","e","n","t","=","e","y","e","s">>

\* "--jq"
JQ == <<"-","-","j","q">>

\* ".id"
DOT_ID == <<".","i","d">>

\* "--method"
METHOD == <<"-","-","m","e","t","h","o","d">>

\* "DELETE"
DELETE == <<"D","E","L","E","T","E">>

\* As it must not be: the issue endpoint for every event.
buildAddReactionArgsIssueOnly(ctx) ==
    LET r == ownerAndRepo(ctx.repo)
    IN  <<API,
          REPOS \o r.owner \o SLASH \o r.repo \o ISSUES
             \o numberToString(ctx.issueNumber) \o REACTIONS,
          DASH_F, CONTENT_EYES, JQ, DOT_ID>>

\* export function buildAddReactionArgs(context: EventContext): string[]
buildAddReactionArgs(ctx) ==
    LET r == ownerAndRepo(ctx.repo)
    IN  IF ctx.eventName = "issue_comment" /\ truthyNumber(ctx.commentId)
          THEN <<API,
                 REPOS \o r.owner \o SLASH \o r.repo \o ISSUES_COMMENTS
                    \o numberToString(ctx.commentId[1]) \o REACTIONS,
                 DASH_F, CONTENT_EYES, JQ, DOT_ID>>
          ELSE <<API,
                 REPOS \o r.owner \o SLASH \o r.repo \o ISSUES
                    \o numberToString(ctx.issueNumber) \o REACTIONS,
                 DASH_F, CONTENT_EYES, JQ, DOT_ID>>

\* As it must not be: the issue endpoint for every target.
buildRemoveReactionArgsIssueOnly(state) ==
    LET r == ownerAndRepo(state.repo)
    IN  IF state.reactionId = None THEN None
        ELSE Some(<<API, METHOD, DELETE,
                    REPOS \o r.owner \o SLASH \o r.repo \o ISSUES
                       \o numberToString(state.issueNumber) \o REACTIONS_SLASH
                       \o numberToString(state.reactionId[1])>>)

\* export function buildRemoveReactionArgs(state): string[] | null
buildRemoveReactionArgs(state) ==
    LET r == ownerAndRepo(state.repo)
    IN  IF state.reactionId = None THEN None
        ELSE IF state.reactionTarget = "comment" /\ truthyNumber(state.commentId)
          THEN Some(<<API, METHOD, DELETE,
                      REPOS \o r.owner \o SLASH \o r.repo \o ISSUES_COMMENTS
                         \o numberToString(state.commentId[1]) \o REACTIONS_SLASH
                         \o numberToString(state.reactionId[1])>>)
          ELSE Some(<<API, METHOD, DELETE,
                      REPOS \o r.owner \o SLASH \o r.repo \o ISSUES
                         \o numberToString(state.issueNumber) \o REACTIONS_SLASH
                         \o numberToString(state.reactionId[1])>>)

\* A line printed by console.log (stdout) or console.error (stderr); args are
\* the gh arguments the line shows, if any.
LogLine(stream, kind, args) == [stream |-> stream, kind |-> kind, args |-> args]

\* "owner"
OWNER_LOWER == <<"o","w","n","e","r">>

\* "Owner"
OWNER_MIXED == <<"O","w","n","e","r">>

\* "member"
MEMBER_LOWER == <<"m","e","m","b","e","r">>

\* "Collaborator"
COLLABORATOR_MIXED == <<"C","o","l","l","a","b","o","r","a","t","o","r">>

\* "CONTRIBUTOR"
CONTRIBUTOR == <<"C","O","N","T","R","I","B","U","T","O","R">>

\* "FIRST_TIME_CONTRIBUTOR"
FIRST_TIME_CONTRIBUTOR == <<"F","I","R","S","T","_","T","I","M","E","_","C","O","N","T","R","I","B","U","T","O","R">>

\* " OWNER"
OWNER_PADDED == <<" ","O","W","N","E","R">>

\* "OWNERS"
OWNERS == <<"O","W","N","E","R","S">>

\* "o/r"
OWNER_REPO == <<"o","/","r">>

\* a repository name without a slash
SOLO == <<"s","o","l","o">>

\* The author associations of the payloads.
Associations ==
    {OWNER, MEMBER, COLLABORATOR, OWNER_LOWER, OWNER_MIXED, MEMBER_LOWER, COLLABORATOR_MIXED,
     NONE, CONTRIBUTOR, FIRST_TIME_CONTRIBUTOR, EMPTY, OWNER_PADDED, OWNERS}

\* payload.comment and payload.issue as the payloads carry them.
Comment(id, association) == [id |-> id, author_association |-> association]
Issue(number, association) == [number |-> number, author_association |-> association]

\* Comments: every association, and ids missing, zero and set.
Comments ==
    {Comment(Some(7), Some(a)) : a \in Associations}
    \cup {Comment(i, a) : i \in {None, Some(0), Some(7)}, a \in {None, Some(OWNER)}}

\* Issues: every association, and numbers missing and set.
Issues ==
    {Issue(Some(5), Some(a)) : a \in Associations}
    \cup {Issue(n, a) : n \in {None, Some(5)}, a \in {None, Some(OWNER)}}

\* A few comments and issues to go with every issue and comment.
FewComments == {None, Some(Comment(Some(7), Some(OWNER))), Some(Comment(Some(7), Some(NONE)))}
FewIssues == {None, Some(Issue(Some(5), Some(OWNER))), Some(Issue(Some(5), Some(NONE)))}

\* The event payloads.
Payloads ==
    {[comment |-> Some(cm), issue |-> i] : cm \in Comments, i \in FewIssues}
    \cup {[comment |-> cm, issue |-> Some(i)] : cm \in FewComments, i \in Issues}
    \cup {[comment |-> None, issue |-> None]}

\* The file at GITHUB_EVENT_PATH.
EventFiles ==
    {[kind |-> "missing", payload |-> None], [kind |-> "garbage", payload |-> None]}
    \cup {[kind |-> "json", payload |-> Some(p)] : p \in Payloads}

\* process.env: complete, or with one of the three variables missing.
Environments ==
    {[GITHUB_EVENT_PATH |-> TRUE, GITHUB_EVENT_NAME |-> n, GITHUB_REPOSITORY |-> r] :
        n \in {"issue_comment", "issues"}, r \in {OWNER_REPO, SOLO}}
    \cup {[GITHUB_EVENT_PATH |-> FALSE, GITHUB_EVENT_NAME |-> "issues",
           GITHUB_REPOSITORY |-> OWNER_REPO],
          [GITHUB_EVENT_PATH |-> TRUE, GITHUB_EVENT_NAME |-> "",
           GITHUB_REPOSITORY |-> OWNER_REPO],
          [GITHUB_EVENT_PATH |-> TRUE, GITHUB_EVENT_NAME |-> "issue_comment",
           GITHUB_REPOSITORY |-> EMPTY]}

\* State files left by an earlier step that captured a reaction id.
StateFilesWithReaction ==
    {[kind |-> "json",
      value |-> Some([reactionId |-> r, reactionTarget |-> t, commentId |-> c,
                      issueNumber |-> 5, repo |-> OWNER_REPO])] :
        r \in {Some(9), Some(12)}, t \in {"comment", "issue"}, c \in {None, Some(0), Some(7)}}

\* What may be at the path of the state file before the add step runs.
StateFilesBefore ==
    {AbsentFile,
     [kind |-> "unreadable", value |-> None],
     [kind |-> "garbage", value |-> None],
     [kind |-> "null", value |-> None]}
    \cup StateFilesWithReaction

InitReaction ==
    /\ PromptAtRest
    /\ BundleAtRest
    /\ ScoreboardAtRest
    /\ CliAtRest
    /\ pc = "add"
    /\ diffOutput = << >>
    /\ entries = << >>
    /\ parseState = "none"
    /\ addedSpecs = << >>
    /\ updated = FALSE
    /\ outcome = NoOutcome
    /\ env \in Environments
    /\ stateFileArg \in BOOLEAN
    /\ eventFile \in EventFiles
    /\ writable \in BOOLEAN
    /\ context = NoContext
    /\ authorization = "undecided"
    /\ disk \in StateFilesBefore
    /\ log = << >>
    /\ exitCodes = << >>

\* writeFileSync(stateFile, JSON.stringify(state, null, 2), "utf8"): the file
\* holds the state, whose fields are numbers, null and strings and come back
\* from JSON.parse as they were; a file that cannot be written is left as it was.
writeFileSync(file, state) ==
    IF writable THEN [kind |-> "json", value |-> Some(state)] ELSE file

\* catch (error) of the entry point: console.error(`Warning: reaction signal failed: ...`)
SignalWarning == LogLine("stderr", "signal-warning", << >>)

\* signal-reaction.ts add: main, addReaction and the catch of the entry point.
AddReaction ==
    /\ pc = "add"
    /\ pc' = "remove"
    /\ IF \/ ~env.GITHUB_EVENT_PATH
          \/ env.GITHUB_EVENT_NAME = ""
          \/ env.GITHUB_REPOSITORY = << >>
         THEN /\ log' = Append(log, LogLine("stderr", "missing-env", << >>))
              /\ exitCodes' = Append(exitCodes, 1)
              /\ UNCHANGED <<context, authorization, disk>>
       ELSE IF ~stateFileArg
         THEN /\ log' = Append(log, LogLine("stderr", "state-file-required", << >>))
              /\ exitCodes' = Append(exitCodes, 1)
              /\ UNCHANGED <<context, authorization, disk>>
       ELSE IF eventFile.kind # "json"
         THEN /\ log' = Append(log, SignalWarning)
              /\ exitCodes' = Append(exitCodes, 0)
              /\ UNCHANGED <<context, authorization, disk>>
       ELSE LET ctx == parseEventContext(env.GITHUB_EVENT_NAME, eventFile.payload[1],
                                         env.GITHUB_REPOSITORY)
                state == buildReactionState(ctx, None)
            IN  /\ context' = ctx
                /\ exitCodes' = Append(exitCodes, 0)
                /\ disk' = writeFileSync(disk, state)
                /\ IF ~isAuthorizedAssociation(ctx.authorAssociation)
                     THEN /\ authorization' = "unauthorized"
                          /\ log' = log \o <<LogLine("stdout", "skipping", << >>)>>
                                        \o (IF writable THEN << >> ELSE <<SignalWarning>>)
                     ELSE /\ authorization' = "authorized"
                          /\ log' = log
                                \o <<LogLine("stdout", "adding", buildAddReactionArgs(ctx))>>
                                \o (IF writable
                                      THEN <<LogLine("stdout", "state-written", << >>)>>
                                      ELSE <<SignalWarning>>)
    /\ UNCHANGED <<diffOutput, entries, parseState, addedSpecs, updated, outcome>>
    /\ UNCHANGED <<env, stateFileArg, eventFile, writable>>
    /\ UNCHANGED <<scoreboardVars, cliVars, promptVars, bundleVars>>

\* As it must not be: a failed cleanup ending the process with exit code 1.
CleanupFailureFatal ==
    [line |-> LogLine("stderr", "cleanup-warning", << >>), exitCode |-> 1]

\* catch (error) of removeReaction: console.error(`Warning: reaction cleanup
\* failed: ...`), and the process ends normally.
CleanupFailure ==
    [line |-> LogLine("stderr", "cleanup-warning", << >>), exitCode |-> 0]

\* signal-reaction.ts remove: main and removeReaction.
RemoveReaction ==
    /\ pc = "remove"
    /\ pc' = "end"
    /\ IF ~stateFileArg
         THEN /\ log' = Append(log, LogLine("stderr", "state-file-required", << >>))
              /\ exitCodes' = Append(exitCodes, 1)
       ELSE IF disk.kind # "json"
         THEN /\ log' = Append(log, CleanupFailure.line)
              /\ exitCodes' = Append(exitCodes, CleanupFailure.exitCode)
       ELSE LET args == buildRemoveReactionArgs(disk.value[1])
            IN  /\ log' = Append(log, IF args = None
                                        THEN LogLine("stdout", "nothing-to-remove", << >>)
                                        ELSE LogLine("stdout", "removing", args[1]))
                /\ exitCodes' = Append(exitCodes, 0)
    /\ UNCHANGED <<diffOutput, entries, parseState, addedSpecs, updated, outcome>>
    /\ UNCHANGED <<env, stateFileArg, eventFile, writable, context, authorization, disk>>
    /\ UNCHANGED <<scoreboardVars, cliVars, promptVars, bundleVars>>

NextReaction ==
    \/ AddReaction
    \/ RemoveReaction

SpecReaction == InitReaction /\ [][NextReaction]_vars

---------------------------------------------------------------------------
(* Properties of the reaction signal *)

\* c and d are the same character, or c is the lower-case letter of d.
SameLetter(c, d) == c = d \/ (CharCode[c] \in 97..122 /\ CharCode[c] - 32 = CharCode[d])

\* s is word, whatever the case of its letters; word is in upper case.
EqualsIgnoringCase(s, word) ==
    /\ Len(s) = Len(word)
    /\ \A i \in DOMAIN s : SameLetter(s[i], word[i])

\* The add step ran for an authorized actor and wrote the state file, and the
\* remove step ran afterwards with that state file.
LifecycleCompleted ==
    /\ pc = "end"
    /\ authorization = "authorized"
    /\ stateFileArg
    /\ writable

\* C19: for an authorized actor the add step captures the id of the eyes
\* reaction it adds into the state file, and the remove step run afterwards
\* with that state file builds the DELETE call for that reaction: it does not
\* report that there is nothing to remove.
C19_RemoveDeletesCapturedReaction ==
    LifecycleCompleted =>
        /\ disk.kind = "json"
        /\ disk.value[1].reactionId # None
        /\ disk.value[1].reactionTarget = resolveReactionTarget(context.eventName)
        /\ log[Len(log)].kind = "removing"
        /\ log[Len(log)].args = buildRemoveReactionArgs(disk.value[1])[1]

\* C20: isAuthorizedAssociation is true if and only if the association is
\* OWNER, MEMBER or COLLABORATOR whatever the case of its letters; it is false
\* for NONE, CONTRIBUTOR, FIRST_TIME_CONTRIBUTOR and the empty string.
C20_AuthorizedIff ==
    authorization # "undecided" =>
        /\ authorization = "authorized" <=>
              \E word \in {OWNER, MEMBER, COLLABORATOR} :
                  EqualsIgnoringCase(context.authorAssociation, word)
        /\ context.authorAssociation \in {NONE, CONTRIBUTOR, FIRST_TIME_CONTRIBUTOR, EMPTY}
              => authorization = "unauthorized"

C20_Witness ==
    /\ authorization = "authorized"
    /\ context.authorAssociation = COLLABORATOR_MIXED
    /\ context.eventName = "issue_comment"

\* The payload and the event name add mode parsed.
ParsedPayload == eventFile.payload[1]
ParsedEvent == env.GITHUB_EVENT_NAME

\* The object the event is about: the comment for issue_comment, else the issue.
Author == IF ParsedEvent = "issue_comment" THEN ParsedPayload.comment ELSE ParsedPayload.issue

\* What C21 says of the fields of the context.
ContextFieldsAsStated ==
    /\ context.eventName = ParsedEvent
    /\ context.repo = env.GITHUB_REPOSITORY
    /\ context.authorAssociation =
          (IF Author = None THEN NONE
           ELSE IF Author[1].author_association = None THEN NONE
           ELSE Author[1].author_association[1])
    /\ context.commentId =
          (IF ParsedEvent # "issue_comment" THEN None
           ELSE IF ParsedPayload.comment = None THEN None
           ELSE ParsedPayload.comment[1].id)
    /\ ParsedPayload.issue = None => context.issueNumber = 0
    /\ (ParsedPayload.issue # None /\ ParsedPayload.issue[1].number # None)
          => context.issueNumber = ParsedPayload.issue[1].number[1]

\* C21 as the specification states it: the fields of the context, and a
\* payload with a missing comment never yields an authorized context.
C21_Original ==
    authorization # "undecided" =>
        /\ ContextFieldsAsStated
        /\ ParsedPayload.comment = None => authorization = "unauthorized"

\* C21, amended: parseEventContext takes the association from the comment for
\* issue_comment events and from the issue for every other event, NONE when
\* the field or its object is missing; commentId is the comment id (null when
\* missing) for issue_comment events and null otherwise; issueNumber is 0 when
\* the issue is missing.  For an issue_comment event a payload with a missing
\* comment never yields an authorized context; for another event it does when
\* the issue's association is allowed.
C21_ContextFromEvent ==
    authorization # "undecided" =>
        /\ ContextFieldsAsStated
        /\ (ParsedEvent = "issue_comment" /\ ParsedPayload.comment = None)
              => authorization = "unauthorized"
        /\ (/\ ParsedEvent # "issue_comment"
            /\ ParsedPayload.comment = None
            /\ ParsedPayload.issue # None
            /\ ParsedPayload.issue[1].author_association = Some(OWNER))
              => authorization = "authorized"

C21_Witness ==
    /\ authorization = "unauthorized"
    /\ ParsedEvent = "issue_comment"
    /\ ParsedPayload.comment = None
    /\ ParsedPayload.issue = Some(Issue(Some(5), Some(OWNER)))
    /\ context.authorAssociation = NONE
    /\ context.issueNumber = 5

\* The decimal text of the ids and numbers of the inputs, written out.
IdText ==
    0 :> <<"0">> @@ 5 :> <<"5">> @@ 7 :> <<"7">> @@ 9 :> <<"9">> @@ 12 :> <<"1", "2">>

\* The path segments of an endpoint.
Segments(endpoint) == split(endpoint, "/")

\* The segments every endpoint starts with: repos, the owner and the repository.
RepoSegments(repoName) ==
    IF repoName = OWNER_REPO THEN <<<<"r","e","p","o","s">>, <<"o">>, <<"r">>>>
    ELSE <<<<"r","e","p","o","s">>, repoName, <<"u","n","d","e","f","i","n","e","d">>>>

\* The segments "issues", "comments" and "reactions".
IssuesSegment == <<"i","s","s","u","e","s">>
CommentsSegment == <<"c","o","m","m","e","n","t","s">>
ReactionsSegment == <<"r","e","a","c","t","i","o","n","s">>

\* The state remove mode read and the last line it printed.
StateRead == disk.value[1]
LastLine == log[Len(log)]

\* Remove mode ran and read a state from the state file.
RemoveReadState == pc = "end" /\ stateFileArg /\ disk.kind = "json"

\* C22: buildRemoveReactionArgs returns null if and only if reactionId is
\* null; otherwise it returns a DELETE call on
\* issues/comments/<commentId>/reactions/<reactionId> exactly when the target
\* is "comment" and commentId is set (not null and not 0), and on
\* issues/<issueNumber>/reactions/<reactionId> in every other case.
C22_RemoveArgs ==
    RemoveReadState =>
        /\ LastLine.kind = "nothing-to-remove" <=> StateRead.reactionId = None
        /\ StateRead.reactionId # None =>
              /\ LastLine.kind = "removing"
              /\ Len(LastLine.args) = 4
              /\ SubSeq(LastLine.args, 1, 3) =
                    <<<<"a","p","i">>, <<"-","-","m","e","t","h","o","d">>,
                      <<"D","E","L","E","T","E">>>>
              /\ Segments(LastLine.args[4]) =
                    RepoSegments(StateRead.repo) \o
                    (IF /\ StateRead.reactionTarget = "comment"
                        /\ StateRead.commentId # None
                        /\ StateRead.commentId # Some(0)
                       THEN <<IssuesSegment, CommentsSegment, IdText[StateRead.commentId[1]],
                              ReactionsSegment, IdText[StateRead.reactionId[1]]>>
                       ELSE <<IssuesSegment, IdText[StateRead.issueNumber],
                              ReactionsSegment, IdText[StateRead.reactionId[1]]>>)

C22_Witness ==
    /\ RemoveReadState
    /\ StateRead.reactionTarget = "comment"
    /\ StateRead.commentId = None
    /\ StateRead.reactionId = Some(12)
    /\ LastLine.kind = "removing"

\* The lines of the log that show the add-reaction call.
AddingLines == {i \in DOMAIN log : log[i].kind = "adding"}

\* The event is issue_comment and its comment id is set (not null and not 0).
CommentIdSet ==
    /\ context.eventName = "issue_comment"
    /\ context.commentId # None
    /\ context.commentId # Some(0)

\* C23: buildAddReactionArgs always requests content=eyes; it targets
\* issues/comments/<commentId>/reactions exactly when the event is
\* issue_comment and commentId is set, and issues/<issueNumber>/reactions in
\* every other case; when commentId is set for an issue_comment event the
\* target buildReactionState records is "comment", as the endpoint picked.
C23_AddArgs ==
    authorization = "authorized" =>
        /\ Cardinality(AddingLines) = 1
        /\ \A i \in AddingLines :
              /\ Len(log[i].args) = 6
              /\ log[i].args[1] = <<"a","p","i">>
              /\ SubSeq(log[i].args, 3, 6) =
                    <<<<"-","f">>, <<"c","o","n","t","e","n","t","=","e","y","e","s">>,
                      <<"-","-","j","q">>, <<".","i","d">>>>
              /\ Segments(log[i].args[2]) =
                    RepoSegments(context.repo) \o
                    (IF CommentIdSet
                       THEN <<IssuesSegment, CommentsSegment, IdText[context.commentId[1]],
                              ReactionsSegment>>
                       ELSE <<IssuesSegment, IdText[context.issueNumber], ReactionsSegment>>)
        /\ (CommentIdSet /\ writable) =>
              /\ disk.value[1].reactionTarget = "comment"
              /\ disk.value[1].commentId = context.commentId

C23_Witness ==
    /\ authorization = "authorized"
    /\ pc = "remove"
    /\ writable
    /\ context.commentId = Some(7)
    /\ context.issueNumber = 5
    /\ disk.value[1].reactionTarget = "comment"
    /\ Cardinality(AddingLines) = 1

\* C25: in remove mode with --state-file given, a state file that is missing,
\* unreadable, not JSON, or not a state object makes cleanup fail; the
\* failure is caught, one warning is printed on stderr and the exit code is 0.
C25_CleanupNonFatal ==
    (pc = "end" /\ stateFileArg) =>
        /\ exitCodes[2] = 0
        /\ disk.kind \in {"absent", "unreadable", "garbage", "null"} =>
              /\ Len(log) >= 1
              /\ LastLine.stream = "stderr"
              /\ LastLine.kind = "cleanup-warning"
        /\ disk.kind = "json" => LastLine.kind \in {"removing", "nothing-to-remove"}

C25_Witness ==
    /\ pc = "end"
    /\ stateFileArg
    /\ disk.kind = "garbage"
    /\ exitCodes[2] = 0
    /\ LastLine.kind = "cleanup-warning"

\* C26: no failure in add mode (environment variables missing, --state-file
\* missing, event payload unreadable or not JSON, state file not writable)
\* makes the add run exit with a non-zero code.
C26_AddNonFatal == Len(exitCodes) >= 1 => exitCodes[1] = 0

\* C29: for an actor that is not authorized, add mode prints no add-reaction
\* call and writes a state with reactionId null and the target, comment id,
\* issue number and repository of the event; remove mode run afterwards on
\* that state file builds no DELETE call and reports that there is no
\* reaction to remove.
C29_UnauthorizedLeavesNoReaction ==
    authorization = "unauthorized" =>
        /\ AddingLines = {}
        /\ writable =>
              /\ disk.kind = "json"
              /\ disk.value[1].reactionId = None
              /\ disk.value[1].reactionTarget =
                    (IF ParsedEvent = "issue_comment" THEN "comment" ELSE "issue")
              /\ disk.value[1].commentId = context.commentId
              /\ disk.value[1].issueNumber = context.issueNumber
              /\ disk.value[1].repo = env.GITHUB_REPOSITORY
        /\ (writable /\ pc = "end") =>
              /\ LastLine = LogLine("stdout", "nothing-to-remove", << >>)
              /\ \A i \in DOMAIN log : log[i].kind # "removing"
              /\ exitCodes = <<0, 0>>

C29_Witness ==
    /\ pc = "end"
    /\ authorization = "unauthorized"
    /\ writable
    /\ context.authorAssociation = CONTRIBUTOR
    /\ context.commentId = Some(7)
    /\ LastLine.kind = "nothing-to-remove"

---------------------------------------------------------------------------
(* signal-reaction.ts: extractPrompt *)

\* As it must not be: the blank line and the body appended whatever the body.
extractPromptAlwaysJoined(eventName, payload) ==
    IF eventName = "issue_comment"
      THEN orElse(field(payload.comment, "body"), EMPTY)
      ELSE orElse(field(payload.issue, "title"), EMPTY) \o <<LF, LF>>
              \o orElse(field(payload.issue, "body"), EMPTY)

\* export function extractPrompt(eventName, payload): string
extractPrompt(eventName, payload) ==
    IF eventName = "issue_comment"
      THEN orElse(field(payload.comment, "body"), EMPTY)
      ELSE LET title == orElse(field(payload.issue, "title"), EMPTY)
               body == orElse(field(payload.issue, "body"), EMPTY)
           IN  IF body # EMPTY THEN title \o <<LF, LF>> \o body ELSE title

\* Texts of comments and issues: missing, empty, or some characters.
Texts == {None, Some(EMPTY), Some(<<"h", "i">>), Some(<<"a", LF, "b">>)}

\* The payloads handed to extractPrompt.
PromptPayloads ==
    {[comment |-> c, issue |-> i] :
        c \in {None} \cup {Some([body |-> b]) : b \in Texts},
        i \in {None} \cup {Some([title |-> t, body |-> b]) : t \in Texts, b \in Texts}}

InitPrompt ==
    /\ GuardAtRest
    /\ ScoreboardAtRest
    /\ CliAtRest
    /\ ReactionAtRest
    /\ BundleAtRest
    /\ promptEvent \in {"issue_comment", "issues"}
    /\ promptPayload \in PromptPayloads
    /\ prompt = None

\* prompt = extractPrompt(eventName, payload)
ExtractPrompt ==
    /\ prompt = None
    /\ promptEvent # ""
    /\ prompt' = Some(extractPrompt(promptEvent, promptPayload))
    /\ UNCHANGED <<promptEvent, promptPayload>>
    /\ UNCHANGED <<guardVars, scoreboardVars, cliVars, reactionVars, bundleVars>>

NextPrompt == ExtractPrompt

SpecPrompt == InitPrompt /\ [][NextPrompt]_vars

\* The text of a field of the payload that is there, and whether it is there
\* and not empty.
TextOf(object, name) == object[1][name][1]
HasText(object, name) ==
    /\ object # None
    /\ object[1][name] # None
    /\ object[1][name] # Some(EMPTY)

---------------------------------------------------------------------------
(* build-github-mode-bundle.ts: parseArgs *)

\* "--dry-run"
DRY_RUN == <<"-","-","d","r","y","-","r","u","n">>

\* "--output-dir"
OUTPUT_DIR == <<"-","-","o","u","t","p","u","t","-","d","i","r">>

\* "--help"
HELP == <<"-","-","h","e","l","p">>

\* "-h"
HELP_SHORT == <<"-","h">>

\* "-"
DASH == <<"-">>

\* an option the script does not know
BOGUS == <<"-","-","b","o","g","u","s">>

\* a directory under the working directory
OUT == <<"o","u","t">>

\* a directory that does not exist
GONE == <<"g","o","n","e">>

\* a directory named by an absolute path
ABS == <<"/","a","b","s">>

\* process.argv[0]
NODE == <<"n","o","d","e">>

\* process.argv[1]
SCRIPT == <<"s","c","r","i","p","t",".","t","s">>

\* process.cwd()
CWD == <<"/","r","e","p","o">>

\* The directories that exist.
ExistingDirs == {CWD, CWD \o SLASH \o OUT, ABS}

\* existsSync(dir)
existsSync(dir) == dir \in ExistingDirs

\* path.resolve(dir): an absolute path as it is, a relative one under the
\* working directory.
resolve(dir) == IF startsWith(dir, SLASH) THEN dir ELSE CWD \o SLASH \o dir

\* { error: ... }: kind names the message, detail is what the message quotes.
ArgsError(kind, detail) == [isError |-> TRUE, error |-> kind, detail |-> detail]

\* { repoRoot, outputDir: resolvedOutputDir, dryRun }
BundleOptions(repoRoot, outputDir, dryRun) ==
    [isError |-> FALSE, repoRoot |-> repoRoot, outputDir |-> outputDir, dryRun |-> dryRun]

\* As it must not be: any token after --output-dir taken for the directory.
requiresDirectoryWhenLast(next) == ~next.defined

\* !next || next.startsWith("-")
requiresDirectory(next) ==
    \/ ~next.defined
    \/ next.value = EMPTY
    \/ startsWith(next.value, DASH)

\* The end of parseArgs, after its loop.
resolveOptions(outputDir, dryRun) ==
    LET repoRoot == CWD
        resolvedOutputDir == IF outputDir # None /\ outputDir[1] # EMPTY
                               THEN resolve(outputDir[1]) ELSE repoRoot
    IN  IF ~existsSync(resolvedOutputDir)
          THEN ArgsError("missing-directory", resolvedOutputDir)
          ELSE BundleOptions(repoRoot, resolvedOutputDir, dryRun)

\* The loop of parseArgs from index i (counted from 0) on.
RECURSIVE parseArgsFrom(_, _, _, _)
parseArgsFrom(args, i, outputDir, dryRun) ==
    IF i >= Len(args) THEN resolveOptions(outputDir, dryRun)
    ELSE LET arg == args[i + 1]
             next == at(args, i + 1)
         IN  IF arg = DRY_RUN THEN parseArgsFrom(args, i + 1, outputDir, TRUE)
             ELSE IF arg = OUTPUT_DIR
               THEN IF requiresDirectory(next)
                      THEN ArgsError("requires-directory", << >>)
                      ELSE parseArgsFrom(args, i + 2, Some(next.value), dryRun)
             ELSE IF arg = HELP \/ arg = HELP_SHORT THEN ArgsError("usage", << >>)
             ELSE IF ~startsWith(arg, DASH)
               THEN parseArgsFrom(args, i + 1, Some(arg), dryRun)
             ELSE ArgsError("unknown-option", arg)

\* export function parseArgs(argv: string[]): BundleOptions | { error: string }
parseArgs(processArgv) ==
    parseArgsFrom(SubSeq(processArgv, 3, Len(processArgv)), 0, None, FALSE)

\* The tokens of the command lines.
Tokens == {DRY_RUN, OUTPUT_DIR, HELP, HELP_SHORT, BOGUS, OUT, GONE, ABS, EMPTY}

\* The longest command line, node and the script aside.
MaxArgs == 3

InitArgs ==
    /\ GuardAtRest
    /\ ScoreboardAtRest
    /\ CliAtRest
    /\ ReactionAtRest
    /\ PromptAtRest
    /\ argv \in {<<NODE, SCRIPT>> \o a : a \in SeqsUpTo(Tokens, MaxArgs)}
    /\ parsedArgs = None
    /\ repoFiles = {}
    /\ bundleOutputDir = << >>
    /\ dryResult = None
    /\ wetResult = None

\* const parsed = parseArgs(process.argv)
ParseArgs ==
    /\ parsedArgs = None
    /\ argv # << >>
    /\ parsedArgs' = Some(parseArgs(argv))
    /\ UNCHANGED <<argv, repoFiles, bundleOutputDir, dryResult, wetResult>>
    /\ UNCHANGED <<guardVars, scoreboardVars, cliVars, reactionVars, promptVars>>

NextArgs == ParseArgs

SpecArgs == InitArgs /\ [][NextArgs]_vars

\* The arguments after node and the script, and what parseArgs returned.
Args == SubSeq(argv, 3, Len(argv))
Parsed == parsedArgs[1]

\* The token starts with "-".
IsDashed(token) == token # << >> /\ token[1] = "-"

\* --output-dir at i is last or is followed by a token starting with "-".
LacksDirectory(i) ==
    /\ Args[i] = OUTPUT_DIR
    /\ i = Len(Args) \/ IsDashed(Args[i + 1])

\* --output-dir at i is followed by the empty token.
HasEmptyDirectory(i) == Args[i] = OUTPUT_DIR /\ i < Len(Args) /\ Args[i + 1] = << >>

IsHelp(i) == Args[i] \in {HELP, HELP_SHORT}

IsUnknownOption(i) ==
    IsDashed(Args[i]) /\ Args[i] \notin {DRY_RUN, OUTPUT_DIR, HELP, HELP_SHORT}

\* The directories the command line names, in order: the tokens that do not
\* start with "-" (a value of --output-dir or a positional argument).
NamedDirs == SelectSeq(Args, LAMBDA token : ~IsDashed(token))

\* The output directory the command line asks for, resolved.
AskedOutputDir ==
    IF NamedDirs = << >> \/ NamedDirs[Len(NamedDirs)] = << >> THEN CWD
    ELSE LET d == NamedDirs[Len(NamedDirs)]
         IN  IF d[1] = "/" THEN d ELSE <<"/","r","e","p","o","/">> \o d

\* The directories that are there, written out.
DirExists(dir) ==
    dir \in {<<"/","r","e","p","o">>, <<"/","r","e","p","o","/","o","u","t">>,
             <<"/","a","b","s">>}

\* C28 as the specification states it: an error, never options, in each of
\* the listed cases, the usage text whenever --help or -h is given; options in
\* every other case.
C28_Original ==
    parsedArgs # None =>
        /\ (\E i \in DOMAIN Args : LacksDirectory(i) \/ IsUnknownOption(i)) => Parsed.isError
        /\ (\E i \in DOMAIN Args : IsHelp(i)) => Parsed.isError /\ Parsed.error = "usage"
        /\ ~DirExists(AskedOutputDir) => Parsed.isError
        /\ (/\ \A i \in DOMAIN Args : ~LacksDirectory(i) /\ ~IsUnknownOption(i) /\ ~IsHelp(i)
            /\ DirExists(AskedOutputDir))
           => /\ ~Parsed.isError
              /\ Parsed.dryRun <=> \E i \in DOMAIN Args : Args[i] = DRY_RUN
              /\ Parsed.outputDir = AskedOutputDir

\* The tokens at which parseArgs returns an error.
Offending ==
    {i \in DOMAIN Args :
        LacksDirectory(i) \/ HasEmptyDirectory(i) \/ IsHelp(i) \/ IsUnknownOption(i)}

\* C28, amended: the tokens are read in order and the first offending one
\* decides the error: --output-dir that is last or followed by an empty token
\* or one starting with "-", --help or -h (the usage text), an unknown option
\* starting with "-".  With no offending token the result is an error when the
\* resolved output directory does not exist, and otherwise options with dryRun
\* true exactly when --dry-run was given and outputDir the last directory
\* named by --output-dir or a positional argument, the repository root when
\* none (or the empty string) was named last.
C28_FirstOffendingToken ==
    parsedArgs # None =>
        IF Offending # {}
          THEN LET i == Min(Offending)
               IN  /\ Parsed.isError
                   /\ Parsed.error =
                         (IF Args[i] = OUTPUT_DIR THEN "requires-directory"
                          ELSE IF IsHelp(i) THEN "usage"
                          ELSE "unknown-option")
                   /\ IsUnknownOption(i) => Parsed.detail = Args[i]
          ELSE IF ~DirExists(AskedOutputDir)
            THEN /\ Parsed.isError
                 /\ Parsed.error = "missing-directory"
                 /\ Parsed.detail = AskedOutputDir
          ELSE /\ ~Parsed.isError
               /\ Parsed.dryRun <=> \E i \in DOMAIN Args : Args[i] = DRY_RUN
               /\ Parsed.outputDir = AskedOutputDir
               /\ Parsed.repoRoot = <<"/","r","e","p","o">>

C28_Witness ==
    /\ parsedArgs # None
    /\ Args = <<GONE, OUTPUT_DIR, OUT>>
    /\ ~Parsed.isError
    /\ Parsed.outputDir = <<"/","r","e","p","o","/","o","u","t">>
    /\ ~Parsed.dryRun

---------------------------------------------------------------------------
(* build-github-mode-bundle.ts: buildBundle *)

\* Paths are sequences of names; the repository root is one of them.
REPO_ROOT == <<"repo">>

\* export const COMPONENT_GROUPS: the id and the paths of each group, a
\* directory path ("runtime/github/") without its trailing slash.
COMPONENT_GROUPS ==
    <<[id |-> "runtime-contracts", paths |-> <<<<"runtime", "github">>>>],
      [id |-> "workflows",
       paths |-> <<<<".github", "workflows", "github-mode-contracts.yml">>>>],
      [id |-> "docs", paths |-> <<<<"docs", "github-mode">>>>],
      [id |-> "validation-scripts",
       paths |-> <<<<"scripts", "validate-github-runtime-contracts.ts">>,
                   <<"scripts", "check-upstream-additions-only.ts">>,
                   <<"scripts", "build-github-mode-bundle.ts">>>>],
      [id |-> "tests",
       paths |-> <<<<"test", "validate-github-runtime-contracts.test.ts">>,
                   <<"test", "check-upstream-additions-only.test.ts">>,
                   <<"test", "build-github-mode-bundle.test.ts">>>>],
      [id |-> "entrypoints",
       paths |-> <<<<".GITHUB-MODE-ACTIVE.md">>, <<".GITHUB-MODE-README.md">>>>]>>

\* generateBundleName(): the name of the zip of this minute.
BUNDLE_NAME == "gitclaw-2026-02-17-20-15.zip"

\* path.join(dir, name) and path.relative(repoRoot, fullPath)
pathJoin(dir, rel) == dir \o rel
pathRelative(root, full) == SubSeq(full, Len(root) + 1, Len(full))

\* dir is a proper prefix of path.
IsUnder(path, dir) == Len(path) > Len(dir) /\ SubSeq(path, 1, Len(dir)) = dir

\* Directories that exist and hold no file.
EmptyDirs == {<<"tmp", "out">>}

\* stat.isDirectory() and existsSync(path) over the files fs
isDirectory(fs, path) == path \in EmptyDirs \/ \E f \in fs : IsUnder(f, path)
pathExists(fs, path) == path \in fs \/ isDirectory(fs, path)

\* The order in which readdirSync lists the names of a directory.
NameOrder ==
    <<BUNDLE_NAME, "README.md", "a.json", "runtime-manifest.json", "schemas">>

\* readdirSync(dir): the names in dir, in listing order
readdirSync(fs, dir) ==
    SelectSeq(NameOrder, LAMBDA n : \E f \in fs : IsUnder(f, dir) /\ f[Len(dir) + 1] = n)

\* export type BundleEntry
BundleEntry(relativePath, absolutePath, groupId) ==
    [relativePath |-> relativePath, absolutePath |-> absolutePath, groupId |-> groupId]

\* function collectDirRecursive(dir, repoRoot, groupId, out), over the names
\* of dir that are left to visit
RECURSIVE collectNames(_, _, _, _, _)
collectNames(fs, dir, names, repoRoot, groupId) ==
    IF names = << >> THEN << >>
    ELSE LET fullPath == pathJoin(dir, <<names[1]>>)
             here == IF isDirectory(fs, fullPath)
                       THEN collectNames(fs, fullPath, readdirSync(fs, fullPath), repoRoot,
                                         groupId)
                       ELSE <<BundleEntry(pathRelative(repoRoot, fullPath), fullPath, groupId)>>
         IN  here \o collectNames(fs, dir, Tail(names), repoRoot, groupId)

collectDirRecursive(fs, dir, repoRoot, groupId) ==
    collectNames(fs, dir, readdirSync(fs, dir), repoRoot, groupId)

\* The inner loop of collectBundleEntries: the paths of one group.
RECURSIVE collectPaths(_, _, _, _)
collectPaths(fs, repoRoot, groupId, paths) ==
    IF paths = << >> THEN << >>
    ELSE LET p == paths[1]
             absolutePath == pathJoin(repoRoot, p)
             here == IF ~pathExists(fs, absolutePath) THEN << >>
                     ELSE IF isDirectory(fs, absolutePath)
                       THEN collectDirRecursive(fs, absolutePath, repoRoot, groupId)
                     ELSE <<BundleEntry(p, absolutePath, groupId)>>
         IN  here \o collectPaths(fs, repoRoot, groupId, Tail(paths))

\* The outer loop of collectBundleEntries: the groups.
RECURSIVE collectGroups(_, _, _)
collectGroups(fs, repoRoot, groups) ==
    IF groups = << >> THEN << >>
    ELSE collectPaths(fs, repoRoot, groups[1].id, groups[1].paths)
            \o collectGroups(fs, repoRoot, Tail(groups))

\* export function collectBundleEntries(repoRoot: string): BundleEntry[]
collectBundleEntries(fs, repoRoot) == collectGroups(fs, repoRoot, COMPONENT_GROUPS)

\* zip.generateAsync(...): the zip holds one record per entry and the record
\* that closes it; what matters of the buffer is its length.
zipBuffer(bundled) == <<"end-of-central-directory">> \o [i \in DOMAIN bundled |-> "entry"]

\* export type BuildResult, and how buildBundle ends: files are the files on
\* disk afterwards.
BuildResult(outputPath, bundled, sizeBytes) ==
    [outputPath |-> outputPath, fileCount |-> Len(bundled), entries |-> bundled,
     sizeBytes |-> sizeBytes]

NoBuildResult == BuildResult(None, << >>, 0)

\* As it must not be: the dry run returning before the files are collected.
buildBundleDryRunEmpty(fs, options) ==
    LET bundled == collectBundleEntries(fs, options.repoRoot)
        outputPath == pathJoin(options.outputDir, <<BUNDLE_NAME>>)
    IN  IF options.dryRun
          THEN [threw |-> FALSE, result |-> BuildResult(None, << >>, 0), files |-> fs]
        ELSE IF ~isDirectory(fs, options.outputDir)
          THEN [threw |-> TRUE, result |-> NoBuildResult, files |-> fs]
        ELSE [threw |-> FALSE,
              result |-> BuildResult(Some(outputPath), bundled, Len(zipBuffer(bundled))),
              files |-> fs \cup {outputPath}]

\* export async function buildBundle(options): Promise<BuildResult>;
\* writeFileSync throws when the output directory does not exist.
buildBundle(fs, options) ==
    LET bundled == collectBundleEntries(fs, options.repoRoot)
        outputPath == pathJoin(options.outputDir, <<BUNDLE_NAME>>)
    IN  IF options.dryRun
          THEN [threw |-> FALSE, result |-> BuildResult(None, bundled, 0), files |-> fs]
        ELSE IF ~isDirectory(fs, options.outputDir)
          THEN [threw |-> TRUE, result |-> NoBuildResult, files |-> fs]
        ELSE [threw |-> FALSE,
              result |-> BuildResult(Some(outputPath), bundled, Len(zipBuffer(bundled))),
              files |-> fs \cup {outputPath}]

\* The files a repository may hold, relative to its root.
FilePool ==
    {<<"runtime", "github", "runtime-manifest.json">>,
     <<"runtime", "github", "schemas", "a.json">>,
     <<".github", "workflows", "github-mode-contracts.yml">>,
     <<"docs", "github-mode", "README.md">>,
     <<"scripts", "build-github-mode-bundle.ts">>,
     <<".GITHUB-MODE-README.md">>,
     <<"other", "README.md">>}

\* The output directories: the repository root, a bundled directory, an
\* empty directory elsewhere, a directory that does not exist.
OutputDirs ==
    {REPO_ROOT, REPO_ROOT \o <<"docs", "github-mode">>, <<"tmp", "out">>, <<"tmp", "gone">>}

InitBundle ==
    /\ GuardAtRest
    /\ ScoreboardAtRest
    /\ CliAtRest
    /\ ReactionAtRest
    /\ PromptAtRest
    /\ argv = << >>
    /\ parsedArgs = None
    /\ repoFiles \in {{pathJoin(REPO_ROOT, f) : f \in fs} : fs \in SUBSET FilePool}
    /\ bundleOutputDir \in OutputDirs
    /\ dryResult = None
    /\ wetResult = None

\* buildBundle({ repoRoot, outputDir, dryRun: true })
BuildDryRun ==
    /\ dryResult = None
    /\ LET r == buildBundle(repoFiles, [repoRoot |-> REPO_ROOT, outputDir |-> bundleOutputDir,
                                        dryRun |-> TRUE])
       IN  /\ dryResult' = Some([threw |-> r.threw, result |-> r.result])
           /\ repoFiles' = r.files
    /\ UNCHANGED <<argv, parsedArgs, bundleOutputDir, wetResult>>
    /\ UNCHANGED <<guardVars, scoreboardVars, cliVars, reactionVars, promptVars>>

\* buildBundle({ repoRoot, outputDir, dryRun: false })
BuildBundle ==
    /\ wetResult = None
    /\ LET r == buildBundle(repoFiles, [repoRoot |-> REPO_ROOT, outputDir |-> bundleOutputDir,
                                        dryRun |-> FALSE])
       IN  /\ wetResult' = Some([threw |-> r.threw, result |-> r.result])
           /\ repoFiles' = r.files
    /\ UNCHANGED <<argv, parsedArgs, bundleOutputDir, dryResult>>
    /\ UNCHANGED <<guardVars, scoreboardVars, cliVars, reactionVars, promptVars>>

NextBundle ==
    \/ BuildDryRun
    \/ BuildBundle

SpecBundle == InitBundle /\ [][NextBundle]_vars

---------------------------------------------------------------------------
(* Properties of buildBundle, under SpecBundle *)

DryRan == dryResult # None
WetRan == wetResult # None /\ ~wetResult[1].threw
Dry == dryResult[1].result
Wet == wetResult[1].result

\* The zip the non-dry run writes.
WrittenZip == pathJoin(bundleOutputDir, <<BUNDLE_NAME>>)

\* The dry run collected a repository without the zip of the other run: the
\* two runs were over the same repository.
SameRepository == \A i \in DOMAIN Dry.entries : Dry.entries[i].absolutePath # WrittenZip

\* What holds of the results once the runs are over.
C27_Results ==
    /\ DryRan =>
          /\ ~dryResult[1].threw
          /\ Dry.outputPath = None
          /\ Dry.sizeBytes = 0
          /\ Dry.fileCount = Len(Dry.entries)
    /\ WetRan =>
          /\ Wet.fileCount = Len(Wet.entries)
          /\ Wet.outputPath = Some(WrittenZip)
          /\ WrittenZip \in repoFiles
    /\ (DryRan /\ WetRan /\ SameRepository) =>
          /\ Dry.entries = Wet.entries
          /\ Dry.fileCount = Wet.fileCount

\* C27: a dry run of buildBundle leaves the files on disk as they were and
\* returns no outputPath and sizeBytes 0; its entries and fileCount are those
\* of the non-dry run over the same repository; in both modes fileCount is the
\* number of collected entries.
C27_DryRunWritesNothing ==
    [][/\ (dryResult = None /\ dryResult' # None) => repoFiles' = repoFiles
       /\ C27_Results']_vars

\* Both runs over a repository with bundled files, the zip written into a
\* bundled directory after the dry run.
C27_Witness ==
    /\ DryRan
    /\ WetRan
    /\ bundleOutputDir = REPO_ROOT \o <<"docs", "github-mode">>
    /\ SameRepository
    /\ Len(Wet.entries) >= 3
    /\ \E i \in DOMAIN Dry.entries : Len(Dry.entries[i].relativePath) = 4
    /\ Dry.outputPath = None
    /\ Wet.sizeBytes > 0

=============================================================================
